---- MODULE Spec2Model ----
(***************************************************************************)
(* A model of the matching and enumeration engine of SMT4ModPlant:         *)
(* Code/SMT4ModPlant/SMT4ModPlant_main.py (run_optimization and its        *)
(* helpers), and of the worker thread that calls it, SMTWorker.run in      *)
(* Code/GUI/Workers.py and gui.py.                                         *)
(*                                                                         *)
(* Conventions                                                             *)
(*   - Python None and the empty list [] are the empty sequence << >>;     *)
(*     an optional value x is << x >>.                                     *)
(*   - Text that the code takes apart (split, replace, re.match) is a      *)
(*     sequence of one-character strings; a run of characters that no      *)
(*     operation looks into may be kept as one element.  Text that is only *)
(*     compared for equality is a TLA+ string.                             *)
(*   - float values are integers counting tenths (12.5 is 125).            *)
(***************************************************************************)
EXTENDS Integers, Sequences, FiniteSets, TLC

None == << >>

Some(x) == << x >>

IsNone(o) == Len(o) = 0

\* TRANSPORT_CAPABILITIES = ["Dosing", "Transfer", "Discharge"]
TRANSPORT_CAPABILITIES == {"Dosing", "Transfer", "Discharge"}

\* max_attempts = 200
max_attempts == 200

(***************************************************************************)
(* Text helpers                                                            *)
(***************************************************************************)

\* str.replace(old, ''): every occurrence of the character is dropped.
RECURSIVE RemoveChar(_, _)
RemoveChar(s, c) ==
    IF Len(s) = 0 THEN << >>
    ELSE IF Head(s) = c THEN RemoveChar(Tail(s), c)
    ELSE << Head(s) >> \o RemoveChar(Tail(s), c)

\* str.replace(old, new) for single characters.
ReplaceChar(s, old, new) ==
    [k \in 1..Len(s) |-> IF s[k] = old THEN new ELSE s[k]]

\* Index of the last occurrence of c in s, 0 when there is none.
LastIndexOf(s, c) ==
    IF \E k \in 1..Len(s) : s[k] = c
    THEN CHOOSE k \in 1..Len(s) : s[k] = c /\ \A l \in (k+1)..Len(s) : s[l] # c
    ELSE 0

\* s.split('#')[-1]: the text after the last '#', the whole text without one.
SplitLast(s) == SubSeq(s, LastIndexOf(s, "#") + 1, Len(s))

DigitChars == <<"0", "1", "2", "3", "4", "5", "6", "7", "8", "9">>

IsDigit(c) == \E d \in 1..10 : DigitChars[d] = c

DigitVal(c) == (CHOOSE d \in 1..10 : DigitChars[d] = c) - 1

\* The character class [0-9\.,] of the value expressions.
IsNumChar(c) == IsDigit(c) \/ c = "." \/ c = ","

\* Length of the operator the alternation (>=|<=|>|<|=)? takes at the start.
OpLen(s) ==
    IF Len(s) >= 2 /\ s[1] \in {">", "<"} /\ s[2] = "=" THEN 2
    ELSE IF Len(s) >= 1 /\ s[1] \in {">", "<", "="} THEN 1
    ELSE 0

\* Number of leading characters of s, from position p on, that satisfy \s.
RECURSIVE SpaceRun(_, _)
SpaceRun(s, p) ==
    IF p <= Len(s) /\ s[p] = " " THEN 1 + SpaceRun(s, p + 1) ELSE 0

\* Number of leading characters of s, from position p on, in [0-9\.,].
RECURSIVE NumRun(_, _)
NumRun(s, p) ==
    IF p <= Len(s) /\ IsNumChar(s[p]) THEN 1 + NumRun(s, p + 1) ELSE 0

\* re.match(r'(>=|<=|>|<|=)?\s*([0-9\.,]+)', text).groups(): None when the
\* text does not start with the pattern, else the operator (None when the
\* optional group took nothing) and the number text.
ReMatch(text) ==
    LET o  == OpLen(text)
        w  == SpaceRun(text, o + 1)
        n  == NumRun(text, o + w + 1)
    IN  IF n = 0 THEN None
        ELSE Some([op  |-> IF o = 0 THEN None ELSE Some(SubSeq(text, 1, o)),
                   val |-> SubSeq(text, o + w + 1, o + w + n)])

\* op or '=' ; the operator is handed on as a TLA+ string.
OpOrEq(op) ==
    IF IsNone(op) THEN "="
    ELSE IF op[1] = <<">", "=">> THEN ">="
    ELSE IF op[1] = <<"<", "=">> THEN "<="
    ELSE IF op[1] = <<">">> THEN ">"
    ELSE IF op[1] = <<"<">> THEN "<"
    ELSE "="

RECURSIVE DigitsValue(_)
DigitsValue(s) ==
    IF Len(s) = 0 THEN 0
    ELSE 10 * DigitsValue(SubSeq(s, 1, Len(s) - 1)) + DigitVal(s[Len(s)])

\* float(text) for a text over [0-9.]: a ValueError (None) unless the text has
\* at least one digit and at most one point; else the value in tenths.  Texts
\* of the model carry at most one digit after the point.
FloatOf(text) ==
    LET points == {k \in 1..Len(text) : text[k] = "."}
    IN  IF Cardinality(points) > 1 \/ Len(text) - Cardinality(points) = 0
        THEN None
        ELSE IF points = {}
        THEN Some(10 * DigitsValue(text))
        ELSE LET p    == CHOOSE k \in points : TRUE
                 ip   == SubSeq(text, 1, p - 1)
                 fp   == SubSeq(text, p + 1, Len(text))
             IN  Some(10 * DigitsValue(ip)
                      + (IF Len(fp) = 0 THEN 0 ELSE DigitVal(fp[1])))

\* float(val.replace(',', '.'))
FloatOfValue(val) == FloatOf(ReplaceChar(val, ",", "."))

(***************************************************************************)
(* Compatibility tests                                                     *)
(*   step      [ID, Description, SemanticDescription, Parameters]          *)
(*   parameter [Key, UnitOfMeasure, ValueString]                           *)
(*   capability entry [capability_name, capability_ID, generalized_by,     *)
(*                     properties]                                         *)
(*   property  [property_ID, property_unit, valueMin, valueMax, values,    *)
(*              property_constraint]; values holds the texts under the     *)
(*              keys value, value1, ...                                    *)
(*   constraint [conditional_type, property_constraint_ID,                 *)
(*              property_constraint_unit, property_constraint_value]       *)
(*   material  [ID, Key, UnitOfMeasure, Quantity]                          *)
(***************************************************************************)

capability_matching(recipe_sem_id, cap_entry) ==
    \/ cap_entry.capability_ID = recipe_sem_id
    \/ SplitLast(recipe_sem_id) \in cap_entry.generalized_by

\* str(param_value)
StrOf(v) == IF IsNone(v) THEN <<"N", "o", "n", "e">> ELSE v[1]

\* The floats collected from every key that starts with 'value' (valueMin and
\* valueMax are among them); a text float() refuses is skipped.
DiscreteValues(prop) ==
    LET texts == {prop.values[k] : k \in 1..Len(prop.values)}
                 \cup {o[1] : o \in {x \in {prop.valueMin, prop.valueMax} : ~IsNone(x)}}
    IN  {FloatOf(t)[1] : t \in {u \in texts : ~IsNone(FloatOf(u))}}

\* RangeAccepts with '>' and '<' admitting the bound itself.
RangeAcceptsClosed(op, val, prop) ==
    LET lo == IF IsNone(prop.valueMin) THEN None ELSE FloatOf(prop.valueMin[1])
        hi == IF IsNone(prop.valueMax) THEN None ELSE FloatOf(prop.valueMax[1])
    IN  /\ ~IsNone(lo) => ~ (op \in {"=", ">=", ">"} /\ val < lo[1])
        /\ ~IsNone(hi) => ~ (op \in {"=", "<=", "<"} /\ val > hi[1])

\* The range branch once the expression matched and converted.
RangeAccepts(op, val, prop) ==
    LET lo == IF IsNone(prop.valueMin) THEN None ELSE FloatOf(prop.valueMin[1])
        hi == IF IsNone(prop.valueMax) THEN None ELSE FloatOf(prop.valueMax[1])
    IN  /\ ~IsNone(lo) => ~ ( \/ (op \in {"=", ">="} /\ val < lo[1])
                               \/ (op = ">" /\ val <= lo[1]) )
        /\ ~IsNone(hi) => ~ ( \/ (op \in {"=", "<="} /\ val > hi[1])
                               \/ (op = "<" /\ val >= hi[1]) )

\* The discrete branch once the expression matched and converted.
DiscreteAccepts(op, pval, D) ==
    CASE op = "="  -> pval \in D
      [] op = ">=" -> \E dv \in D : dv >= pval
      [] op = "<=" -> \E dv \in D : dv <= pval
      [] op = ">"  -> \E dv \in D : dv > pval
      [] op = "<"  -> \E dv \in D : dv < pval

\* property_value_match once the pattern has been tried on the expression
\* (match) and the discrete values collected (D).
ValueMatchOf(match, D, prop) ==
    IF (~IsNone(prop.valueMin) \/ ~IsNone(prop.valueMax)) /\ ~IsNone(match)
    THEN IF IsNone(FloatOfValue(match[1].val)) THEN "ValueError"
         ELSE IF RangeAccepts(OpOrEq(match[1].op), FloatOfValue(match[1].val)[1], prop)
              THEN "True" ELSE "False"
    ELSE IF D # {}
    THEN IF ~IsNone(match)
         THEN IF IsNone(FloatOfValue(match[1].val)) THEN "ValueError"
              ELSE IF DiscreteAccepts(OpOrEq(match[1].op), FloatOfValue(match[1].val)[1], D)
                   THEN "True" ELSE "False"
         ELSE "False"
    ELSE "True"

\* "True", "False", or "ValueError" when float() of the matched number text
\* raises (the call is outside any try).
property_value_match(param_value, prop) ==
    ValueMatchOf(ReMatch(StrOf(param_value)), DiscreteValues(prop), prop)

\* What the inner loop does with property k once property_value_match has
\* answered r: "stop" (raised), "take" or "next".
PropVerdict(param, prop, r) ==
    IF prop.property_ID # param.Key THEN "next"
    ELSE IF /\ ~IsNone(param.UnitOfMeasure)
            /\ ~IsNone(prop.property_unit)
            /\ param.UnitOfMeasure # prop.property_unit
    THEN "next"
    ELSE IF r = "ValueError" THEN "stop"
    ELSE IF r = "True" THEN "take"
    ELSE "next"

PickByVerdict(verdict, k, next) ==
    IF verdict = "stop" THEN -1 ELSE IF verdict = "take" THEN k ELSE next

\* The inner loop of properties_compatible from property k on: the index of
\* the first property that matches the parameter, 0 when none does, -1 when
\* property_value_match raises before a match is found.
RECURSIVE FirstMatchingProp(_, _, _)
FirstMatchingProp(param, props, k) ==
    IF k > Len(props) THEN 0
    ELSE PickByVerdict(
             PropVerdict(param, props[k],
                         property_value_match(param.ValueString, props[k])),
             k, FirstMatchingProp(param, props, k + 1))

\* What the outer loop does once the inner loop has answered k for parameter p.
RECURSIVE ParamsFrom(_, _, _, _)
AfterParam(params, props, p, matched, k) ==
    IF k = -1 THEN [raised |-> TRUE, ok |-> FALSE, matched |-> << >>]
    ELSE IF k = 0 THEN [raised |-> FALSE, ok |-> FALSE, matched |-> << >>]
    ELSE ParamsFrom(params, props, p + 1,
                    Append(matched, <<params[p], props[k]>>))

\* The outer loop of properties_compatible from parameter p on.
ParamsFrom(params, props, p, matched) ==
    IF p > Len(params) THEN [raised |-> FALSE, ok |-> TRUE, matched |-> matched]
    ELSE AfterParam(params, props, p, matched,
                    FirstMatchingProp(params[p], props, 1))

\* (is_prop_match, matched_props), or raised.
properties_compatible(recipe_step, cap_entry) ==
    IF Len(recipe_step.Parameters) = 0
    THEN [raised |-> FALSE, ok |-> TRUE, matched |-> << >>]
    ELSE ParamsFrom(recipe_step.Parameters, cap_entry.properties, 1, << >>)

\* QuantityHolds with the strict comparisons admitting equality.
QuantityHoldsLax(op, mval, cval) ==
    \/ (op \in {">=", ">"} /\ mval >= cval)
    \/ (op \in {"<=", "<"} /\ mval <= cval)
    \/ (op = "="  /\ mval = cval)

\* The comparison of lines 129-135.
QuantityHolds(op, mval, cval) ==
    \/ (op = ">=" /\ mval >= cval)
    \/ (op = ">"  /\ mval > cval)
    \/ (op = "<=" /\ mval <= cval)
    \/ (op = "<"  /\ mval < cval)
    \/ (op = "="  /\ mval = cval)

\* The test of lines 124-135 once the pattern has been tried (match) and the
\* two numbers converted.
QuantityMatch(match, cval, mval) ==
    /\ ~IsNone(match)
    /\ ~IsNone(cval)
    /\ ~IsNone(mval)
    /\ QuantityHolds(OpOrEq(match[1].op), mval[1], cval[1])

\* float(val.replace(',', '.')) of a match, None when there is no match
ValueOfMatch(match) == IF IsNone(match) THEN None ELSE FloatOfValue(match[1].val)

\* One material against one "Pre" constraint; whatever raises inside the try
\* is swallowed and the material does not count.
MaterialSatisfies(mat, constraint) ==
    /\ mat.Key = constraint.property_constraint_ID
    /\ mat.UnitOfMeasure = constraint.property_constraint_unit
    /\ QuantityMatch(ReMatch(constraint.property_constraint_value),
                     ValueOfMatch(ReMatch(constraint.property_constraint_value)),
                     FloatOf(mat.Quantity))

SeqElems(s) == {s[k] : k \in 1..Len(s)}

check_preconditions_for_step(recipe, step, cap_entry) ==
    LET links == recipe.DirectedLinks
        input_material_ids == {links[k].FromID :
                                  k \in {l \in 1..Len(links) : links[l].ToID = step.ID}}
        materials == recipe.Inputs \o recipe.Intermediates
        input_materials == {m \in SeqElems(materials) : m.ID \in input_material_ids}
    IN  \A prop \in SeqElems(cap_entry.properties) :
            \A constraint \in SeqElems(prop.property_constraint) :
                constraint.conditional_type = "Pre" =>
                    \E mat \in input_materials : MaterialSatisfies(mat, constraint)

\* capabilities_data is a dict in insertion order: a sequence of entries
\* [key, caps] with pairwise different keys.
Keys(capabilities) == [k \in 1..Len(capabilities) |-> capabilities[k].key]

\* capabilities_data[res]
CapsOf(capabilities, res) ==
    (CHOOSE e \in SeqElems(capabilities) : e.key = res).caps

has_transfer_capability(res, capabilities) ==
    /\ res \in SeqElems(Keys(capabilities))
    /\ \E cap \in SeqElems(CapsOf(capabilities, res)) :
           cap.capability_name \in TRANSPORT_CAPABILITIES


(***************************************************************************)
(* State of one call of run_optimization                                   *)
(***************************************************************************)
VARIABLES
    recipe_data,                 \* argument: the recipe
    capabilities_data,           \* argument: resource key -> capability entries
    solver_order,                \* how the solver orders its models (see Pick)
    pc,                          \* position in run_optimization
    i,                           \* index of the step whose row is built next
    step_resource_to_caps_props, \* the candidate matrix
    Assignment,                  \* per step and resource: the variable or None
    s,                           \* the assertions held by the Solver
    model,                       \* the model of the current iteration
    attempt_count,
    log,                         \* what log_callback received, in order
    ret,                         \* None until the call returns, then the value
    examined                     \* history: the models the solver has yielded

\* run_optimization and what one call of it holds
call_vars == <<recipe_data, capabilities_data, solver_order, pc, i,
               step_resource_to_caps_props, Assignment, s, model, attempt_count,
               log, ret, examined>>

(***************************************************************************)
(* State of one run of SMTWorker (Code/GUI/Workers.py and gui.py)          *)
(***************************************************************************)
VARIABLES
    variant,                 \* which SMTWorker runs: "Workers" or "gui"
    mode_index,              \* constructor argument
    recipe_parses,           \* whether parse_general_recipe returns or raises
    listing,                 \* os.listdir(resource_dir): None if it raises
    parse_result,            \* file name -> parse_capabilities_robust returns
                             \* capabilities ("caps"), none ("empty") or raises
    w_pc,                    \* position in run
    current_phase,           \* Workers.py only: None until assigned
    resource_files,
    file_idx,                     \* index of the file parsed next
    all_capabilities,        \* resource key -> the file its capabilities came from
    emitted,                 \* the signals emitted, in order
    caught,                  \* the exception the handler caught, or None
    cancel_requested         \* the caller asked the run to stop

worker_vars == <<variant, mode_index, recipe_parses, listing, parse_result,
                 w_pc, current_phase, resource_files, file_idx, all_capabilities,
                 emitted, caught, cancel_requested>>

(***************************************************************************)
(* A direct call of one of the compatibility tests                         *)
(***************************************************************************)
VARIABLES
    unit_call,               \* None, or the call: [fn, args]
    unit_result              \* None until the call returned, then its value

unit_vars == <<unit_call, unit_result>>

(***************************************************************************)
(* State of the front end: HomePage of Code/GUI/Home.py or of gui.py, and  *)
(* the weight spin boxes                                                   *)
(***************************************************************************)
VARIABLES
    front_end,               \* "Home" (Code/GUI/Home.py) or "gui" (gui.py)
    cb_smt,                  \* Home.py: cb_smt.isChecked()
    cb_opt,                  \* Home.py: cb_opt.isChecked()
    page_mode_index,         \* Home.py: HomePage.mode_index
    recipe_path,
    resource_dir,
    btn_run,                 \* btn_run.isEnabled()
    worker,                  \* self.worker: the number of the worker, 0 for none
    running,                 \* the workers whose thread has not ended
    app_alive,               \* the application has not been aborted
    last_event,              \* history: the last event the page handled
    spin,                    \* the values of the spin boxes, in hundredths
    prev_vals,               \* in hundredths
    changes                  \* history: how often the user changed a spin box

page_vars == <<front_end, cb_smt, cb_opt, page_mode_index, recipe_path,
               resource_dir, btn_run, worker, running, app_alive, last_event>>

weight_vars == <<spin, prev_vals, changes>>

gui_vars == <<page_vars, weight_vars>>

vars == <<call_vars, worker_vars, unit_vars, gui_vars>>

process_steps == recipe_data.ProcessElements

resources == Keys(capabilities_data)

(***************************************************************************)
(* 1. Build Constraints                                                    *)
(***************************************************************************)

\* f"assign_{step['ID']}_{res.replace(':', '').replace(' ', '_')}"
VarName(step, res) ==
    <<"assign_", step.ID, "_">> \o ReplaceChar(RemoveChar(res, ":"), " ", "_")

needs_transfer_to_step(step, current_res_idx, res_list, caps_props, recipe) ==
    \E link \in SeqElems(recipe.DirectedLinks) :
        /\ link.ToID = step.ID
        /\ \E idx \in 1..Len(recipe.ProcessElements) :
               /\ recipe.ProcessElements[idx].ID = link.FromID
               /\ \E k \in 1..Len(res_list) :
                      k # current_res_idx /\ ~IsNone(caps_props[idx][k])

\* CapPasses with the precondition test left out.
CapPassesNoPre(recipe, step, cap_entry) ==
    /\ capability_matching(step.SemanticDescription, cap_entry)
    /\ properties_compatible(step, cap_entry).ok

\* Does the capability entry pass the three tests for the step (lines 342-347)?
CapPasses(recipe, step, cap_entry) ==
    /\ capability_matching(step.SemanticDescription, cap_entry)
    /\ properties_compatible(step, cap_entry).ok
    /\ check_preconditions_for_step(recipe, step, cap_entry)

\* Does the loop over cap_list raise (properties_compatible is called for
\* every entry that matches semantically)?
CapListRaises(step, cap_list) ==
    \E cap_entry \in SeqElems(cap_list) :
        /\ capability_matching(step.SemanticDescription, cap_entry)
        /\ properties_compatible(step, cap_entry).raised

\* matching_caps and matching_props for the entries that passed.
CapsAndProps(step, passing) ==
    [caps  |-> [k \in 1..Len(passing) |-> passing[k].capability_name],
     props |-> [k \in 1..Len(passing) |->
                   <<passing[k].capability_name,
                     properties_compatible(step, passing[k]).matched>>]]

\* matching_caps and matching_props after the loop over cap_list.
MatchingCaps(recipe, step, cap_list) ==
    CapsAndProps(step, SelectSeq(cap_list, LAMBDA c : CapPasses(recipe, step, c)))

\* The end of the loop body (lines 351-370) once the capabilities are matched.
CellOf(step, j, res, m, matrix, raised) ==
    [raised |-> raised,
     valid  |-> /\ ~ /\ needs_transfer_to_step(step, j, resources, matrix, recipe_data)
                     /\ ~has_transfer_capability(res, capabilities_data)
                /\ Len(m.caps) > 0,
     var    |-> VarName(step, res),
     cell   |-> <<m.caps, m.props>>]

\* The body of the loop over resources for step ii and resource j (lines
\* 337-370), given the matrix as built so far: whether a call raised, whether
\* the pair is valid, its variable and its cell.
BuildCell(ii, j, matrix) ==
    CellOf(process_steps[ii], j, resources[j],
           MatchingCaps(recipe_data, process_steps[ii],
                        CapsOf(capabilities_data, resources[j])),
           matrix,
           CapListRaises(process_steps[ii], CapsOf(capabilities_data, resources[j])))

\* What one iteration leaves behind: row, the matrix and the variables
\* asserted false.
AddCell(acc, ii, j, c) ==
    IF c.raised THEN [acc EXCEPT !.raised = TRUE]
    ELSE [row    |-> Append(acc.row, IF c.valid THEN Some(c.var) ELSE None),
          matrix |-> IF c.valid THEN [acc.matrix EXCEPT ![ii][j] = c.cell]
                     ELSE acc.matrix,
          neg    |-> IF c.valid THEN acc.neg ELSE acc.neg \cup {c.var},
          raised |-> FALSE]

\* The loop over resources for step ii, from resource j on.
RECURSIVE BuildRowFrom(_, _, _)
BuildRowFrom(ii, j, acc) ==
    IF j > Len(resources) \/ acc.raised THEN acc
    ELSE BuildRowFrom(ii, j + 1, AddCell(acc, ii, j, BuildCell(ii, j, acc.matrix)))

BuiltRow(ii) ==
    BuildRowFrom(ii, 1, [row |-> << >>, matrix |-> step_resource_to_caps_props,
                         neg |-> s.neg, raised |-> FALSE])

\* Lines 322-330: the first log line, the empty matrix and the Solver.
Start ==
    /\ pc = "start"
    /\ log' = Append(log, <<"Starting optimization", Len(process_steps), Len(resources)>>)
    /\ step_resource_to_caps_props' =
           [a \in 1..Len(process_steps) |-> [b \in 1..Len(resources) |-> None]]
    /\ Assignment' = << >>
    /\ s' = [neg |-> {}, sums |-> << >>, falsum |-> FALSE, blocked |-> {}]
    /\ i' = 1
    /\ pc' = "build"
    /\ UNCHANGED <<unit_vars, gui_vars, worker_vars, recipe_data, capabilities_data, solver_order, model,
                   attempt_count, ret, examined>>

\* The state one iteration of the loop over process_steps leaves, b being
\* what the loop over resources built.
RowBuilt(b) ==
    /\ ~b.raised
    /\ step_resource_to_caps_props' = b.matrix
    /\ Assignment' = Append(Assignment, b.row)
    /\ s' = [s EXCEPT !.neg = b.neg]

\* One iteration of the loop over process_steps (lines 333-371).
BuildRow ==
    /\ pc = "build"
    /\ i <= Len(process_steps)
    /\ RowBuilt(BuiltRow(i))
    /\ i' = i + 1
    /\ UNCHANGED <<unit_vars, gui_vars, worker_vars, recipe_data, capabilities_data, solver_order, pc, model,
                   attempt_count, log, ret, examined>>

\* The iteration in which float() raises inside property_value_match: the
\* ValueError leaves run_optimization.
BuildRaise ==
    /\ pc = "build"
    /\ i <= Len(process_steps)
    /\ BuiltRow(i).raised
    /\ pc' = "raised"
    /\ UNCHANGED <<unit_vars, gui_vars, worker_vars, recipe_data, capabilities_data, solver_order, i,
                   step_resource_to_caps_props, Assignment, s, model,
                   attempt_count, log, ret, examined>>

(***************************************************************************)
(* 2. Uniqueness                                                           *)
(***************************************************************************)

\* vars_for_step = [v for v in step_vars if v is not None]
VarsForStep(step_vars) ==
    LET kept == SelectSeq(step_vars, LAMBDA v : ~IsNone(v))
    IN  [k \in 1..Len(kept) |-> kept[k][1]]

\* Lines 374-382: one Sum(...) == 1 per step that has a variable, False for a
\* step that has none; then the log line.
Uniqueness ==
    /\ pc = "build"
    /\ i > Len(process_steps)
    /\ LET rows == [k \in 1..Len(Assignment) |-> VarsForStep(Assignment[k])]
       IN  s' = [s EXCEPT
                   !.sums   = SelectSeq(rows, LAMBDA r : Len(r) > 0),
                   !.falsum = \E k \in 1..Len(rows) : Len(rows[k]) = 0]
    /\ log' = Append(log, <<"Solving constraints...">>)
    /\ attempt_count' = 0
    /\ pc' = "check"
    /\ UNCHANGED <<unit_vars, gui_vars, worker_vars, recipe_data, capabilities_data, solver_order, i,
                   step_resource_to_caps_props, Assignment, model, ret, examined>>


(***************************************************************************)
(* The Solver.  Its assertions are: Not(v) for v in neg; for every row of  *)
(* sums, Sum([If(v, 1, 0) for v in row]) == 1; False when falsum; and      *)
(* Not(And(b)) for every b in blocked.  A model is the set of the          *)
(* variables it makes true.                                                *)
(***************************************************************************)

\* How many models a state may hold for the solver to be modelled as free to
\* yield any of them; with more, it yields the first or the last in the order
\* of Rank, as solver_order says.
FreeChoice == 4

\* SumOf counting a variable once however often the row holds it.
SumOfDistinct(row, m) == Cardinality({row[k] : k \in 1..Len(row)} \cap m)

\* Sum([If(v, 1, 0) for v in row]) under the model m.
SumOf(row, m) == Cardinality({k \in 1..Len(row) : row[k] \in m})

Satisfies(st, m) ==
    /\ ~st.falsum
    /\ m \cap st.neg = {}
    /\ \A k \in 1..Len(st.sums) : SumOf(st.sums[k], m) = 1
    /\ \A b \in st.blocked : ~(b \subseteq m)

\* The ways to satisfy one Sum(...) == 1 by itself.
RowChoices(row, neg) == {v \in SeqElems(row) \ neg : SumOf(row, {v}) = 1}

\* One choice per row, from row k on.  Rows of different steps share no
\* variable (the names carry the step ID), so every model is among these.
RECURSIVE RowProduct(_, _, _)
RowProduct(sums, k, neg) ==
    IF k > Len(sums) THEN {{}}
    ELSE LET rest == RowProduct(sums, k + 1, neg)
         IN  {m \cup {v} : m \in rest, v \in RowChoices(sums[k], neg)}

\* The models of the assertions; s.check() == sat iff there is one.
Models(st) == {m \in RowProduct(st.sums, 1, st.neg) : Satisfies(st, m)}

\* is_true(model[var]) for an entry of Assignment.
IsTrueIn(m, var) == ~IsNone(var) /\ var[1] \in m

\* The resource index a model gives step a (0 when it gives none).
ChosenIndex(m, a) ==
    IF \E b \in 1..Len(Assignment[a]) : IsTrueIn(m, Assignment[a][b])
    THEN CHOOSE b \in 1..Len(Assignment[a]) : IsTrueIn(m, Assignment[a][b])
    ELSE 0

RECURSIVE RankFrom(_, _)
RankFrom(m, a) ==
    IF a > Len(Assignment) THEN 0
    ELSE ChosenIndex(m, a) + (Len(resources) + 1) * RankFrom(m, a + 1)

Rank(m) == RankFrom(m, 1)

MinOf(S) == CHOOSE x \in S : \A y \in S : x <= y

MaxOf(S) == CHOOSE x \in S : \A y \in S : x >= y

\* The models of M whose rank is r.
OfRank(M, r) == {m \in M : Rank(m) = r}

\* The models s.model() may return.
Pick(M) ==
    IF Cardinality(M) <= FreeChoice THEN M
    ELSE IF solver_order = "ascending"
    THEN OfRank(M, MinOf({Rank(m) : m \in M}))
    ELSE OfRank(M, MaxOf({Rank(m) : m \in M}))

(***************************************************************************)
(* Material-flow checker                                                   *)
(***************************************************************************)

MaterialIDs(recipe) ==
    {x.ID : x \in SeqElems(recipe.Inputs) \cup SeqElems(recipe.Intermediates)
                  \cup SeqElems(recipe.Outputs)}

StepIDs(steps) == {steps[k].ID : k \in 1..Len(steps)}

\* step_by_id[id]: a later step with the same ID replaces an earlier one.
StepById(steps, id) ==
    CHOOSE k \in 1..Len(steps) :
        steps[k].ID = id /\ \A l \in (k+1)..Len(steps) : steps[l].ID # id

\* The cells (a, b) whose variable the model makes true.
TrueCells(m, assignment) ==
    {c \in (1..Len(assignment)) \X (1..Len(resources)) :
        IsTrueIn(m, assignment[c[1]][c[2]])}

CellBefore(c, d) == c[1] < d[1] \/ (c[1] = d[1] /\ c[2] < d[2])

\* resource_map: step ID -> resource, the last true cell of an ID winning.
ResourceMap(m, steps, res_list, assignment) ==
    LET cells == TrueCells(m, assignment)
        ids   == {steps[c[1]].ID : c \in cells}
    IN  [id \in ids |->
            res_list[(CHOOSE c \in cells :
                         /\ steps[c[1]].ID = id
                         /\ \A d \in cells :
                               steps[d[1]].ID = id => (d = c \/ CellBefore(d, c)))[2]]]

\* resources.index(res)
IndexOf(res_list, res) ==
    CHOOSE k \in 1..Len(res_list) :
        res_list[k] = res /\ \A l \in 1..(k-1) : res_list[l] # res

\* IsTransfer that knows only the capability name Transfer.
IsTransferNarrow(caps_props, steps, res_list, id, res) ==
    LET caps == caps_props[StepById(steps, id)][IndexOf(res_list, res)][1]
    IN  \E c \in SeqElems(caps) : c = "Transfer"

\* any(c in TRANSPORT_CAPABILITIES for c in caps) for the step's cell
IsTransfer(caps_props, steps, res_list, id, res) ==
    LET caps == caps_props[StepById(steps, id)][IndexOf(res_list, res)][1]
    IN  \E c \in SeqElems(caps) : c \in TRANSPORT_CAPABILITIES

\* LinkStep with the comparison of lines 216-217 left out: a process step
\* takes its material wherever it lies.
LinkStepLax(link, loc, rmap, caps_props, steps, res_list) ==
    LET from_id == link.FromID
        to_id   == link.ToID
    IN  IF from_id \in StepIDs(steps) /\ to_id \in DOMAIN loc
        THEN IF from_id \notin DOMAIN rmap THEN [ok |-> FALSE, loc |-> loc]
             ELSE IF IsTransfer(caps_props, steps, res_list, from_id, rmap[from_id])
             THEN [ok |-> TRUE, loc |-> [loc EXCEPT ![to_id] = None]]
             ELSE [ok |-> TRUE, loc |-> [loc EXCEPT ![to_id] = Some(rmap[from_id])]]
        ELSE IF from_id \in DOMAIN loc /\ to_id \in StepIDs(steps)
        THEN IF to_id \notin DOMAIN rmap THEN [ok |-> FALSE, loc |-> loc]
             ELSE LET assigned_res == rmap[to_id]
                      from_res     == loc[from_id]
                  IN  IF IsTransfer(caps_props, steps, res_list, to_id, assigned_res)
                      THEN IF IsNone(from_res) THEN [ok |-> TRUE, loc |-> loc]
                           ELSE IF from_res[1] # assigned_res
                           THEN [ok |-> FALSE, loc |-> loc]
                           ELSE [ok |-> TRUE, loc |-> loc]
                      ELSE [ok |-> TRUE,
                            loc |-> [loc EXCEPT ![from_id] = Some(assigned_res)]]
        ELSE [ok |-> TRUE, loc |-> loc]

\* The body of the loop over DirectedLinks for one link: whether the scan goes
\* on (ok) and material_location after it.
LinkStep(link, loc, rmap, caps_props, steps, res_list) ==
    LET from_id == link.FromID
        to_id   == link.ToID
    IN  IF from_id \in StepIDs(steps) /\ to_id \in DOMAIN loc
        THEN IF from_id \notin DOMAIN rmap THEN [ok |-> FALSE, loc |-> loc]
             ELSE IF IsTransfer(caps_props, steps, res_list, from_id, rmap[from_id])
             THEN [ok |-> TRUE, loc |-> [loc EXCEPT ![to_id] = None]]
             ELSE [ok |-> TRUE, loc |-> [loc EXCEPT ![to_id] = Some(rmap[from_id])]]
        ELSE IF from_id \in DOMAIN loc /\ to_id \in StepIDs(steps)
        THEN IF to_id \notin DOMAIN rmap THEN [ok |-> FALSE, loc |-> loc]
             ELSE LET assigned_res == rmap[to_id]
                      from_res     == loc[from_id]
                  IN  IF IsTransfer(caps_props, steps, res_list, to_id, assigned_res)
                      THEN IF IsNone(from_res) THEN [ok |-> TRUE, loc |-> loc]
                           ELSE IF from_res[1] # assigned_res
                           THEN [ok |-> FALSE, loc |-> loc]
                           ELSE [ok |-> TRUE, loc |-> loc]
                      ELSE IF ~IsNone(from_res) /\ from_res[1] # assigned_res
                           THEN [ok |-> FALSE, loc |-> loc]
                           ELSE [ok |-> TRUE,
                                 loc |-> [loc EXCEPT ![from_id] = Some(assigned_res)]]
        ELSE [ok |-> TRUE, loc |-> loc]

\* The scan of the first n links: ok is FALSE when one of them returned False,
\* and loc is material_location where the scan stood then.
RECURSIVE FlowScan(_, _, _, _, _, _)
FlowScan(n, m, caps_props, steps, res_list, recipe) ==
    IF n = 0
    THEN [ok |-> TRUE, loc |-> [id \in MaterialIDs(recipe) |-> None]]
    ELSE LET before == FlowScan(n - 1, m, caps_props, steps, res_list, recipe)
         IN  IF ~before.ok THEN before
             ELSE LinkStep(recipe.DirectedLinks[n], before.loc,
                           ResourceMap(m, steps, res_list, Assignment),
                           caps_props, steps, res_list)

is_materialflow_consistent(m, caps_props, steps, res_list, recipe) ==
    FlowScan(Len(recipe.DirectedLinks), m, caps_props, steps, res_list, recipe).ok


(***************************************************************************)
(* 3. Solve & Retry Loop                                                   *)
(***************************************************************************)

\* ", ".join(caps)
RECURSIVE Join(_)
Join(caps) ==
    IF Len(caps) = 0 THEN << >>
    ELSE IF Len(caps) = 1 THEN << caps[1] >>
    ELSE << caps[1], ", " >> \o Join(Tail(caps))

\* The record appended for the cell (a, b) (lines 413-419).
ResultRecord(a, b) ==
    [step_id      |-> process_steps[a].ID,
     description  |-> process_steps[a].Description,
     resource     |-> resources[b],
     capabilities |-> Join(step_resource_to_caps_props[a][b][1]),
     status       |-> "Matched"]

\* results, filled by the two loops of lines 408-419 from step a on.
RECURSIVE ResultsFrom(_, _)
ResultsFrom(m, a) ==
    IF a > Len(process_steps) THEN << >>
    ELSE LET js  == SelectSeq([b \in 1..Len(resources) |-> b],
                              LAMBDA b : IsTrueIn(m, Assignment[a][b]))
         IN  [k \in 1..Len(js) |-> ResultRecord(a, js[k])] \o ResultsFrom(m, a + 1)

\* true_vars of block_solution
TrueVars(m) ==
    {Assignment[c[1]][c[2]][1] : c \in TrueCells(m, Assignment)}

\* block_solution adding nothing to the solver.
BlockNothing(solver, current_model) == solver

block_solution(solver, current_model) ==
    IF TrueVars(current_model) # {}
    THEN [solver EXCEPT !.blocked = @ \cup {TrueVars(current_model)}]
    ELSE solver

\* FlowOk with the test of line 400 inverted.
FlowOkInverted(m) ==
    ~is_materialflow_consistent(m, step_resource_to_caps_props, process_steps,
                                resources, recipe_data)

FlowOk(m) ==
    is_materialflow_consistent(m, step_resource_to_caps_props, process_steps,
                               resources, recipe_data)

\* SolveSat without the increment of line 398.
SolveSatNoCount ==
    /\ pc = "check"
    /\ \E m \in Pick(Models(s)) :
           /\ model' = Some(m)
           /\ examined' = Append(examined, m)
    /\ pc' = "flow"
    /\ UNCHANGED <<unit_vars, gui_vars, worker_vars, recipe_data, capabilities_data, solver_order, i,
                   step_resource_to_caps_props, Assignment, s, log, ret,
                   attempt_count>>

\* while s.check() == sat: model = s.model(); attempt_count += 1
SolveSat ==
    /\ pc = "check"
    /\ \E m \in Pick(Models(s)) :
           /\ model' = Some(m)
           /\ examined' = Append(examined, m)
    /\ attempt_count' = attempt_count + 1
    /\ pc' = "flow"
    /\ UNCHANGED <<unit_vars, gui_vars, worker_vars, recipe_data, capabilities_data, solver_order, i,
                   step_resource_to_caps_props, Assignment, s, log, ret>>

\* s.check() is not sat: the loop ends, lines 430-431.
SolveUnsat ==
    /\ pc = "check"
    /\ Models(s) = {}
    /\ log' = Append(log, <<"UNSAT (No Solution Found).">>)
    /\ ret' = Some(<< >>)
    /\ pc' = "done"
    /\ UNCHANGED <<unit_vars, gui_vars, worker_vars, recipe_data, capabilities_data, solver_order, i,
                   step_resource_to_caps_props, Assignment, s, model,
                   attempt_count, examined>>

\* The model is material-flow consistent: lines 401-420.
Accept ==
    /\ pc = "flow"
    /\ FlowOk(model[1])
    /\ log' = Append(log, <<"Solution Found (Attempt", attempt_count>>)
    /\ ret' = Some(ResultsFrom(model[1], 1))
    /\ pc' = "done"
    /\ UNCHANGED <<unit_vars, gui_vars, worker_vars, recipe_data, capabilities_data, solver_order, i,
                   step_resource_to_caps_props, Assignment, s, model,
                   attempt_count, examined>>

\* The model is inconsistent and attempts remain: lines 422-426.
RejectRetry ==
    /\ pc = "flow"
    /\ ~FlowOk(model[1])
    /\ attempt_count < max_attempts
    /\ log' = Append(log, <<"Model SAT, but Material Flow inconsistent. Retrying", attempt_count>>)
    /\ s' = block_solution(s, model[1])
    /\ pc' = "check"
    /\ UNCHANGED <<unit_vars, gui_vars, worker_vars, recipe_data, capabilities_data, solver_order, i,
                   step_resource_to_caps_props, Assignment, model,
                   attempt_count, ret, examined>>

\* RejectLimit without the log line of line 427.
RejectLimitSilent ==
    /\ pc = "flow"
    /\ ~FlowOk(model[1])
    /\ attempt_count >= max_attempts
    /\ log' = log \o << <<"Model SAT, but Material Flow inconsistent. Retrying", attempt_count>>,
                        <<"UNSAT (No Solution Found).">> >>
    /\ s' = block_solution(s, model[1])
    /\ ret' = Some(<< >>)
    /\ pc' = "done"
    /\ UNCHANGED <<unit_vars, gui_vars, worker_vars, recipe_data, capabilities_data, solver_order, i,
                   step_resource_to_caps_props, Assignment, model,
                   attempt_count, examined>>

\* The model is inconsistent and it was the last attempt: lines 422-431.
RejectLimit ==
    /\ pc = "flow"
    /\ ~FlowOk(model[1])
    /\ attempt_count >= max_attempts
    /\ log' = log \o << <<"Model SAT, but Material Flow inconsistent. Retrying", attempt_count>>,
                        <<"Limit reached: Could not find a material-flow consistent solution.">>,
                        <<"UNSAT (No Solution Found).">> >>
    /\ s' = block_solution(s, model[1])
    /\ ret' = Some(<< >>)
    /\ pc' = "done"
    /\ UNCHANGED <<unit_vars, gui_vars, worker_vars, recipe_data, capabilities_data, solver_order, i,
                   step_resource_to_caps_props, Assignment, model,
                   attempt_count, examined>>


(***************************************************************************)
(* The inputs the model runs on                                            *)
(***************************************************************************)

\* Most steps a drawn recipe has.
MaxSteps == 2

\* Most resources a drawn plant has.
MaxResources == 2

\* The steps of the large recipe that either resource of the large plant can
\* take; with the two that cannot share a resource it has 2^LargeFree
\* satisfying assignments, none of them material-flow consistent.
LargeFree == 8

\* A semantic URI: a prefix, '#', the concept's short name.
Sem(name) == <<"ns", "#", name>>

\* A resource key f"resource: {stem}"
ResKey(stem) == <<"resource", ":", " ">> \o stem

\* The keys of the plants of up to MaxResources resources, in dict order.
KeyPool == [k \in 1..MaxResources |-> ResKey(<<"r", ToString(k)>>)]

\* Two keys that differ only in ' ' against '_'.
KeyPair == << ResKey(<<"a", " ", "b">>), ResKey(<<"a", "_", "b">>) >>

Prop(id, unit, lo, hi, values, constraints) ==
    [property_ID |-> id, property_unit |-> unit, valueMin |-> lo, valueMax |-> hi,
     values |-> values, property_constraint |-> constraints]

Cap(name, id, generalized, props) ==
    [capability_name |-> name, capability_ID |-> id,
     generalized_by |-> generalized, properties |-> props]

CapMix == Cap("Mixing", Sem("Mix"), {}, << >>)

\* Temp in [80, 150] C
CapHeat ==
    Cap("Heating", Sem("Heat"), {},
        << Prop("Temp", Some("C"), Some(<<"8", "0">>), Some(<<"1", "5", "0">>), << >>, << >>) >>)

\* Temp one of 50, 90.5 C
CapHeatWeak ==
    Cap("Warming", Sem("Warm"), {<<"Heat">>},
        << Prop("Temp", Some("C"), None, None, << <<"5", "0">>, <<"9", "0", ".", "5">> >>, << >>) >>)

CapTransfer == Cap("Transfer", Sem("Transfer"), {}, << >>)

CapDosing == Cap("Dosing", Sem("Dosing"), {<<"Transfer">>}, << >>)

\* Mixing that needs an input material with Mass >= 5 kg
CapMixPre ==
    Cap("Mixing", Sem("Mix"), {},
        << Prop("Fill", None, None, None, << >>,
                << [conditional_type |-> "Pre", property_constraint_ID |-> "Mass",
                    property_constraint_unit |-> "kg",
                    property_constraint_value |-> <<">", "=", "5">>] >>) >>)

CapLists == { <<CapMix, CapHeat>>, <<CapHeatWeak, CapDosing>>, <<CapMixPre, CapTransfer>> }

PlantOn(keys, lists) == [k \in 1..Len(keys) |-> [key |-> keys[k], caps |-> lists[k]]]

\* The plants: the first n keys of the pool, or the pair, each key with one
\* of the lists.
Plants ==
    UNION { { PlantOn(SubSeq(KeyPool, 1, n), lists) : lists \in [1..n -> CapLists] } :
            n \in 0..MaxResources }
    \cup { PlantOn(KeyPair, lists) : lists \in [1..2 -> CapLists] }

Step(id, sem, params) ==
    [ID |-> id, Description |-> sem, SemanticDescription |-> Sem(sem), Parameters |-> params]

Param(key, unit, value) == [Key |-> key, UnitOfMeasure |-> unit, ValueString |-> value]

\* ">= 100"
TempAtLeast100 == Param("Temp", Some("C"), Some(<<">", "=", " ", "1", "0", "0">>))

\* "1.2.3": the pattern takes it whole and float() refuses it
TempMalformed == Param("Temp", Some("C"), Some(<<"1", ".", "2", ".", "3">>))

StepOfKind(id, kind) ==
    CASE kind = "Mix"  -> Step(id, "Mix", << >>)
      [] kind = "Heat" -> Step(id, "Heat", << TempAtLeast100 >>)
      [] kind = "Move" -> Step(id, "Transfer", << >>)
      [] kind = "Bad"  -> Step(id, "Heat", << TempMalformed >>)

StepKinds == {"Mix", "Heat", "Move"}

SID(k) == "S" \o ToString(k)

MID(k) == "M" \o ToString(k)

Material(id, quantity) ==
    [ID |-> id, Key |-> "Mass", UnitOfMeasure |-> "kg", Quantity |-> quantity]

Link(from, to) == [FromID |-> from, ToID |-> to]

RECURSIVE Flatten(_)
Flatten(ss) == IF Len(ss) = 0 THEN << >> ELSE Head(ss) \o Flatten(Tail(ss))

\* M0 -> S1 -> M1 -> S2 -> ... -> Sn -> Mn, in the order a recipe lists them.
ChainLinks(n) ==
    Flatten([k \in 1..n |-> << Link(MID(k - 1), SID(k)), Link(SID(k), MID(k)) >>])

\* S1 -> S2 -> ... -> Sn
ForwardLinks(n) == [k \in 1..(n - 1) |-> Link(SID(k), SID(k + 1))]

\* Sn -> ... -> S2 -> S1: every predecessor comes later in ProcessElements
BackwardLinks(n) == [k \in 1..(n - 1) |-> Link(SID(k + 1), SID(k))]

\* M0 feeds every step, and is linked to the last material as well
FanLinks(n) == [k \in 1..n |-> Link(MID(0), SID(k))] \o << Link(MID(0), MID(n)) >>

Wirings == {"none", "chain", "forward", "backward", "fan"}

LinksOf(wiring, n) ==
    CASE wiring = "none"     -> << >>
      [] wiring = "chain"    -> ChainLinks(n)
      [] wiring = "forward"  -> ChainLinks(n) \o ForwardLinks(n)
      [] wiring = "backward" -> BackwardLinks(n)
      [] wiring = "fan"      -> FanLinks(n)

Recipe(steps, links, quantity) ==
    [ProcessElements |-> steps,
     Inputs          |-> << Material(MID(0), quantity) >>,
     Intermediates   |-> [k \in 1..(Len(steps) - 1) |-> Material(MID(k), <<"1">>)],
     Outputs         |-> IF Len(steps) = 0 THEN << >>
                         ELSE << Material(MID(Len(steps)), <<"1">>) >>,
     DirectedLinks   |-> links]

\* The recipes: up to MaxSteps steps of any kinds in any wiring with 10 kg of
\* input, a one-step recipe with 3 kg, one with a malformed parameter, and
\* one whose malformed parameter follows a step no plant here can take
\* unless it has a Transfer capability.
Recipes ==
    UNION { { Recipe([k \in 1..n |-> StepOfKind(SID(k), kinds[k])],
                     LinksOf(wiring, n), <<"1", "0">>) :
                kinds \in [1..n -> StepKinds] } :
            n \in 0..MaxSteps, wiring \in Wirings }
    \cup { Recipe(<< StepOfKind(SID(1), "Mix") >>, ChainLinks(1), <<"3">>),
           Recipe(<< StepOfKind(SID(1), "Bad") >>, ChainLinks(1), <<"1", "0">>),
           Recipe(<< StepOfKind(SID(1), "Move"), StepOfKind(SID(2), "Bad") >>,
                  << >>, <<"1", "0">>) }

\* Two steps that only different resources can take, both fed by M0, and
\* LargeFree steps either resource can take.
LargeRecipe ==
    Recipe(<< Step(SID(1), "Left", << >>), Step(SID(2), "Right", << >>) >>
             \o [k \in 1..LargeFree |-> StepOfKind(SID(k + 2), "Mix")],
           FanLinks(2), <<"1", "0">>)

LargePlant ==
    << [key |-> ResKey(<<"c">>),
        caps |-> << CapMix, Cap("Left", Sem("Left"), {}, << >>) >>],
       [key |-> ResKey(<<"d">>),
        caps |-> << CapMix, Cap("Right", Sem("Right"), {}, << >>) >>] >>

\* A capability named Transfer that a Mix step can also use.
CapCarry == Cap("Transfer", Sem("Transfer"), {<<"Mix">>}, << >>)

\* S1 -> M1 -> S2
TransportRecipe ==
    Recipe(<< StepOfKind(SID(1), "Heat"), StepOfKind(SID(2), "Mix") >>,
           << Link(SID(1), MID(1)), Link(MID(1), SID(2)) >>, <<"1", "0">>)

\* S1 can run on the first resource only and S2 on the second only, which
\* declares the extra capabilities besides.
TransportPlant(extra) ==
    << [key |-> KeyPool[1], caps |-> << CapHeat >>],
       [key |-> KeyPool[2], caps |-> << CapMix >> \o extra] >>

TransportPlants ==
    {TransportPlant(extra) : extra \in {<< >>, << CapTransfer >>, << CapCarry >>}}

(***************************************************************************)
(* SMTWorker.run (Code/GUI/Workers.py, and the older copy in gui.py).      *)
(* A file name is a sequence of one-character strings.  An emission of a   *)
(* signal is [sig, text, arg].  all_capabilities is a dict like            *)
(* capabilities_data, the capabilities of a file standing for themselves   *)
(* as the name of the file.                                                *)
(***************************************************************************)

\* str.lower() on the letters the file names here hold
Lower(name) ==
    [k \in 1..Len(name) |->
        CASE name[k] = "A" -> "a"
          [] name[k] = "S" -> "s"
          [] name[k] = "X" -> "x"
          [] OTHER         -> name[k]]

\* str.endswith(suffix)
EndsWith(name, suffix) ==
    /\ Len(name) >= Len(suffix)
    /\ SubSeq(name, Len(name) - Len(suffix) + 1, Len(name)) = suffix

\* Path(filename).stem
PathStem(name) ==
    LET dot == LastIndexOf(name, ".")
    IN  IF dot <= 1 THEN name ELSE SubSeq(name, 1, dot - 1)

\* The suffixes a resource file may end with.
Extensions(v) ==
    IF v = "Workers"
    THEN {<<".", "x", "m", "l">>, <<".", "a", "a", "s", "x">>, <<".", "j", "s", "o", "n">>}
    ELSE {<<".", "x", "m", "l">>, <<".", "a", "a", "s", "x">>}

\* The condition of the comprehension over os.listdir
Considered(v, name) == \E suffix \in Extensions(v) : EndsWith(Lower(name), suffix)

mode_names(v) ==
    IF v = "Workers" THEN <<"All Results", "Weighted Sorted Results">>
    ELSE <<"Fast", "Pro", "Ultra">>

\* is_opt (Workers.py), is_ultra (gui.py)
RanksSolutions(v, mode) == IF v = "Workers" THEN mode = 1 ELSE mode = 2

LogSignal(text, arg) == [sig |-> "log", text |-> text, arg |-> arg]

ProgressSignal(n) == [sig |-> "progress", text |-> "", arg |-> <<n>>]

\* current_phase = p; gui.py has no such local
PhaseSet(p) == IF variant = "Workers" THEN Some(p) ELSE None

\* What error_signal carries: the phase's message in Workers.py, str(e) in
\* gui.py.
ErrorText(exc, phase) ==
    IF variant = "Workers"
    THEN IF phase = Some("Recipe") THEN "General Recipe read error"
         ELSE IF phase = Some("AAS") THEN "AAS file read error"
         ELSE "Calculation error"
    ELSE exc.msg

\* HandleException without the emission of error_signal.
HandleExceptionSilent(sent, exc, phase) ==
    /\ emitted' = Append(sent, LogSignal("traceback", <<exc.type>>))
    /\ caught' = Some(exc)
    /\ w_pc' = "done"

\* The except clause of run, sent being what the step emitted before it
\* raised.
HandleException(sent, exc, phase) ==
    /\ emitted' = sent \o << [sig |-> "error", text |-> ErrorText(exc, phase), arg |-> << >>],
                            LogSignal("traceback", <<exc.type>>) >>
    /\ caught' = Some(exc)
    /\ w_pc' = "done"

\* What no step of run assigns.
WorkerFrame ==
    UNCHANGED <<call_vars, unit_vars, gui_vars, variant, mode_index,
                recipe_parses, listing, parse_result, cancel_requested>>

\* The recipe is parsed.
ParseRecipe ==
    /\ w_pc = "recipe"
    /\ current_phase' = PhaseSet("Recipe")
    /\ LET sent == Append(emitted, LogSignal("Parsing Recipe", << >>))
       IN  IF recipe_parses
           THEN /\ emitted' = Append(sent, ProgressSignal(10))
                /\ w_pc' = "scan"
                /\ caught' = caught
           ELSE HandleException(sent, [type |-> "ParseError", msg |-> "recipe"],
                                PhaseSet("Recipe"))
    /\ UNCHANGED <<resource_files, file_idx, all_capabilities>>
    /\ WorkerFrame

\* The resource directory is listed and the resource files are picked.
Scan ==
    /\ w_pc = "scan"
    /\ current_phase' = PhaseSet("AAS")
    /\ LET sent == Append(emitted, LogSignal("Scanning resource directory", << >>))
       IN  IF IsNone(listing)
           THEN /\ HandleException(sent, [type |-> "OSError", msg |-> "listdir"],
                                   PhaseSet("AAS"))
                /\ UNCHANGED <<resource_files, file_idx, all_capabilities>>
           ELSE LET files == SelectSeq(listing[1], LAMBDA f : Considered(variant, f))
                IN  /\ resource_files' = files
                    /\ IF files = << >>
                       THEN /\ HandleException(
                                   sent,
                                   [type |-> "FileNotFoundError",
                                    msg  |-> "No .xml or .aasx files found in the selected directory."],
                                   PhaseSet("AAS"))
                            /\ UNCHANGED <<file_idx, all_capabilities>>
                       ELSE /\ emitted' = sent
                            /\ all_capabilities' = << >>
                            /\ file_idx' = 1
                            /\ w_pc' = "file"
                            /\ caught' = caught
    /\ WorkerFrame

\* all_capabilities[key] = caps
DictSet(dict, key, caps) ==
    IF \E k \in 1..Len(dict) : dict[k].key = key
    THEN [k \in 1..Len(dict) |->
             IF dict[k].key = key THEN [key |-> key, caps |-> caps] ELSE dict[k]]
    ELSE Append(dict, [key |-> key, caps |-> caps])

\* ParseFile without the try around the parser: its exception ends the run.
ParseFileUnguarded ==
    /\ w_pc = "file"
    /\ file_idx <= Len(resource_files)
    /\ LET filename == resource_files[file_idx]
           sent     == Append(emitted, LogSignal("Parsing resource file", filename))
           progress == ProgressSignal(10 + (file_idx * 20) \div Len(resource_files))
       IN  IF parse_result[filename] = "raises"
           THEN /\ HandleException(sent, [type |-> "ParseError", msg |-> "resource"],
                                   current_phase)
                /\ UNCHANGED <<file_idx, all_capabilities>>
           ELSE /\ emitted' = Append(sent, progress)
                /\ all_capabilities' =
                       IF parse_result[filename] = "caps"
                       THEN DictSet(all_capabilities, ResKey(PathStem(filename)), filename)
                       ELSE all_capabilities
                /\ file_idx' = file_idx + 1
                /\ UNCHANGED <<w_pc, caught>>
    /\ UNCHANGED <<current_phase, resource_files>>
    /\ WorkerFrame

\* One iteration of the loop over resource_files; file_idx counts from 1, so
\* the progress 10 + int((idx + 1) / total_files * 20) is taken from file_idx.
ParseFile ==
    /\ w_pc = "file"
    /\ file_idx <= Len(resource_files)
    /\ LET filename == resource_files[file_idx]
           sent     == Append(emitted, LogSignal("Parsing resource file", filename))
           progress == ProgressSignal(10 + (file_idx * 20) \div Len(resource_files))
       IN  CASE parse_result[filename] = "caps" ->
                  /\ all_capabilities' =
                         DictSet(all_capabilities, ResKey(PathStem(filename)), filename)
                  /\ emitted' = Append(sent, progress)
             [] parse_result[filename] = "empty" ->
                  /\ all_capabilities' = all_capabilities
                  /\ emitted' = Append(sent, progress)
             [] parse_result[filename] = "raises" ->
                  /\ all_capabilities' = all_capabilities
                  /\ emitted' = sent \o << LogSignal("Warning: Failed to parse", filename),
                                          progress >>
    /\ file_idx' = file_idx + 1
    /\ UNCHANGED <<w_pc, current_phase, resource_files, caught>>
    /\ WorkerFrame

\* After the loop: the count is logged and an empty map ends the run.
Loaded ==
    /\ w_pc = "file"
    /\ file_idx > Len(resource_files)
    /\ LET sent == Append(emitted, LogSignal("Loaded valid resources",
                                             <<Len(all_capabilities)>>))
       IN  IF all_capabilities = << >>
           THEN HandleException(sent, [type |-> "ValueError",
                                       msg  |-> "No valid resources loaded."],
                                current_phase)
           ELSE /\ emitted' = sent
                /\ w_pc' = "calc"
                /\ caught' = caught
    /\ UNCHANGED <<current_phase, resource_files, file_idx, all_capabilities>>
    /\ WorkerFrame

\* def run_optimization(recipe_data, capabilities_data, log_callback=print)
run_optimization_params == <<"recipe_data", "capabilities_data", "log_callback">>

\* The keywords of the worker's call, after its two positional arguments.
WorkerKeywords == {"log_callback", "generate_json", "find_all_solutions"}

\* Python binds a call's arguments before the body runs: every keyword has to
\* name a parameter that no positional argument has taken.
CallBinds(params, positional, keywords) ==
    /\ positional <= Len(params)
    /\ keywords \subseteq {params[k] : k \in (positional + 1)..Len(params)}

\* The weights of the cost model in tenths.
Weights == [energy |-> 4, use |-> 3, co2 |-> 3]

\* The largest total of one cost over the solutions.
CostMax(solutions, cost) == MaxOf({solutions[k][cost] : k \in 1..Len(solutions)})

\* The composite score of a solution, scaled by the product of the maxima
\* that are not zero; a cost whose maximum is zero adds nothing.
Score(sol, solutions, w) ==
    LET e == CostMax(solutions, "total_energy_cost")
        u == CostMax(solutions, "total_use_cost")
        c == CostMax(solutions, "total_co2_footprint")
        one(x) == IF x = 0 THEN 1 ELSE x
    IN  (IF e = 0 THEN 0 ELSE w.energy * sol.total_energy_cost * one(u) * one(c))
        + (IF u = 0 THEN 0 ELSE w.use * sol.total_use_cost * one(e) * one(c))
        + (IF c = 0 THEN 0 ELSE w.co2 * sol.total_co2_footprint * one(e) * one(u))

\* evaluate: the solutions with their composite score, by ascending score,
\* equal scores by ascending solution_id.
evaluate(solutions, w) ==
    LET n == Len(solutions)
        scored == [k \in 1..n |->
                      [composite_score |-> Score(solutions[k], solutions, w)]
                          @@ solutions[k]]
        before(a, b) ==
            \/ scored[a].composite_score < scored[b].composite_score
            \/ /\ scored[a].composite_score = scored[b].composite_score
               /\ \/ scored[a].solution_id < scored[b].solution_id
                  \/ scored[a].solution_id = scored[b].solution_id /\ a < b
        place(k) == Cardinality({l \in 1..n : before(l, k)}) + 1
    IN  [r \in 1..n |-> scored[CHOOSE k \in 1..n : place(k) = r]]

\* The rows of gui_results in the order of evaluated_solutions, each with the
\* costs of its solution; Workers.py sets the spacer row {} before the rows
\* of a solution that has rows, gui.py before every solution but the first.
RECURSIVE SortedGuiResults(_, _, _, _)
SortedGuiResults(v, gui_results, evaluated_solutions, sorted_gui_results) ==
    IF evaluated_solutions = << >> THEN sorted_gui_results
    ELSE LET eval_sol == Head(evaluated_solutions)
             rows == SelectSeq(gui_results,
                               LAMBDA r : /\ "solution_id" \in DOMAIN r
                                          /\ r.solution_id = eval_sol.solution_id)
             spaced == IF /\ sorted_gui_results # << >>
                          /\ (v = "Workers" => rows # << >>)
                       THEN Append(sorted_gui_results, << >>)
                       ELSE sorted_gui_results
             costed == [k \in 1..Len(rows) |->
                           [composite_score |-> eval_sol.composite_score,
                            energy_cost     |-> eval_sol.total_energy_cost,
                            use_cost        |-> eval_sol.total_use_cost,
                            co2_footprint   |-> eval_sol.total_co2_footprint]
                               @@ rows[k]]
         IN  SortedGuiResults(v, gui_results, Tail(evaluated_solutions), spaced \o costed)

\* Lines 99-140 of Workers.py: the rows are ranked in the ranking mode and
\* finished_signal carries them.
Deliver(sent, gui_results, json_solutions) ==
    LET ranks == RanksSolutions(variant, mode_index) /\ json_solutions # << >>
        rows  == IF ranks
                 THEN SortedGuiResults(variant, gui_results,
                                       evaluate(json_solutions, Weights), << >>)
                 ELSE gui_results
    IN  /\ emitted' = sent \o (IF ranks THEN << LogSignal("ranking", << >>) >> ELSE << >>)
                           \o << ProgressSignal(100),
                                 [sig |-> "finished", text |-> "", arg |-> rows] >>
        /\ caught' = caught
        /\ w_pc' = "done"

\* gui_results, json_solutions = <the value of the call>
Unpack(sent, value) ==
    IF Len(value) # 2
    THEN HandleException(sent, [type |-> "ValueError", msg |-> "values to unpack"],
                         PhaseSet("Calculation"))
    ELSE Deliver(Append(sent, ProgressSignal(60)), value[1], value[2])

\* The lists run_optimization returns: [] or the records of one solution.
CallResults ==
    { [k \in 1..n |->
          [step_id |-> SID(k), description |-> "Mix", resource |-> KeyPool[1],
           capabilities |-> <<"Mixing">>, status |-> "Matched"]] : n \in 0..MaxSteps }

\* The calculation phase: run_optimization is called with the keywords
\* generate_json and find_all_solutions.
Calculate ==
    /\ w_pc = "calc"
    /\ current_phase' = PhaseSet("Calculation")
    /\ LET sent == Append(emitted, LogSignal("Starting Calculation",
                                             <<mode_names(variant)[mode_index + 1]>>))
       IN  IF CallBinds(run_optimization_params, 2, WorkerKeywords)
           THEN \E value \in CallResults : Unpack(sent, value)
           ELSE HandleException(sent, [type |-> "TypeError",
                                       msg  |-> "unexpected keyword argument"],
                                PhaseSet("Calculation"))
    /\ UNCHANGED <<resource_files, file_idx, all_capabilities>>
    /\ WorkerFrame

\* The caller asks a running search to stop.
RequestCancel ==
    /\ ~cancel_requested
    /\ pc \notin {"done", "raised"}
    /\ cancel_requested' = TRUE
    /\ UNCHANGED <<call_vars, unit_vars, gui_vars, variant, mode_index,
                   recipe_parses, listing, parse_result, w_pc, current_phase, resource_files, file_idx,
                   all_capabilities, emitted, caught>>

\* The files a resource directory may hold.
FilePool ==
    << <<"r", "1", ".", "x", "m", "l">>,
       <<"r", "1", ".", "A", "A", "S", "X">>,
       <<"r", "2", ".", "j", "s", "o", "n">>,
       <<"n", "o", "t", "e", "s", ".", "t", "x", "t">> >>

MaxFiles == 2

\* What os.listdir may yield: up to MaxFiles different files in any order.
Listings ==
    UNION { { l \in [1..n -> SeqElems(FilePool)] :
                \A a \in 1..n : \A b \in 1..n : a # b => l[a] # l[b] } :
            n \in 0..MaxFiles }


(***************************************************************************)
(* The specification                                                       *)
(***************************************************************************)

\* No worker runs: run_optimization is called directly.
WorkerIdle ==
    /\ variant = "Workers"
    /\ mode_index = 0
    /\ recipe_parses = TRUE
    /\ listing = None
    /\ parse_result = << >>
    /\ w_pc = "idle"
    /\ current_phase = None
    /\ resource_files = << >>
    /\ file_idx = 0
    /\ all_capabilities = << >>
    /\ emitted = << >>
    /\ caught = None
    /\ cancel_requested = FALSE

\* None of the compatibility tests is called on its own.
NoUnitCall ==
    /\ unit_call = None
    /\ unit_result = None

\* The spin boxes after construction: 0.4, 0.3, 0.3, and prev_vals the same.
WeightStart ==
    /\ spin = [energy |-> 40, use |-> 30, co2 |-> 30]
    /\ prev_vals = [energy |-> 40, use |-> 30, co2 |-> 30]
    /\ changes = 0

\* The page after construction: SMT checked, nothing selected, the Run button
\* disabled, no worker.
PageStart ==
    /\ cb_smt = TRUE
    /\ cb_opt = FALSE
    /\ page_mode_index = 0
    /\ recipe_path = ""
    /\ resource_dir = ""
    /\ btn_run = FALSE
    /\ worker = 0
    /\ running = {}
    /\ app_alive = TRUE
    /\ last_event = "constructed"

\* The front end stays as constructed.
FrontEndIdle ==
    /\ front_end = "Home"
    /\ PageStart
    /\ WeightStart

\* run_optimization has not been entered.
CallStart ==
    /\ pc = "start"
    /\ i = 1
    /\ step_resource_to_caps_props = << >>
    /\ Assignment = << >>
    /\ s = [neg |-> {}, sums |-> << >>, falsum |-> FALSE, blocked |-> {}]
    /\ model = None
    /\ attempt_count = 0
    /\ log = << >>
    /\ ret = None
    /\ examined = << >>

Init ==
    /\ \/ /\ recipe_data \in Recipes
          /\ capabilities_data \in Plants
          /\ solver_order = "ascending"
       \/ /\ recipe_data = LargeRecipe
          /\ capabilities_data = LargePlant
          /\ solver_order \in {"ascending", "descending"}
       \/ /\ recipe_data = TransportRecipe
          /\ capabilities_data \in TransportPlants
          /\ solver_order = "ascending"
    /\ CallStart
    /\ WorkerIdle
    /\ NoUnitCall
    /\ FrontEndIdle

Next ==
    \/ Start
    \/ BuildRow
    \/ BuildRaise
    \/ Uniqueness
    \/ SolveSat
    \/ SolveUnsat
    \/ Accept
    \/ RejectRetry
    \/ RejectLimit

Spec == Init /\ [][Next]_vars

\* A search that its caller may ask to stop.
CancelSpec == Init /\ [][Next \/ RequestCancel]_vars

\* A run of the worker: the constructor's arguments and what the files of the
\* run hold.
WorkerInit ==
    /\ variant \in {"Workers", "gui"}
    /\ mode_index \in 0..(Len(mode_names(variant)) - 1)
    /\ recipe_parses \in BOOLEAN
    /\ listing \in {None} \cup {Some(l) : l \in Listings}
    /\ parse_result \in [(IF IsNone(listing) THEN {} ELSE SeqElems(listing[1]))
                             -> {"caps", "empty", "raises"}]
    /\ w_pc = "recipe"
    /\ current_phase = None
    /\ resource_files = << >>
    /\ file_idx = 0
    /\ all_capabilities = << >>
    /\ emitted = << >>
    /\ caught = None
    /\ cancel_requested = FALSE
    /\ recipe_data = TransportRecipe
    /\ capabilities_data = TransportPlant(<< >>)
    /\ solver_order = "ascending"
    /\ CallStart
    /\ NoUnitCall
    /\ FrontEndIdle

WorkerNext ==
    \/ ParseRecipe
    \/ Scan
    \/ ParseFile
    \/ Loaded
    \/ Calculate

WorkerSpec == WorkerInit /\ [][WorkerNext]_vars


(***************************************************************************)
(* Properties                                                              *)
(***************************************************************************)

\* The call returned the records of a model the flow checker accepted.
Accepted ==
    /\ pc = "done"
    /\ ~IsNone(ret)
    /\ Len(log) > 0
    /\ log[Len(log)] = <<"Solution Found (Attempt", attempt_count>>

\* The records of the returned solution.
Returned == ret[1]

\* The cell a returned record stands for.
CellOfRecord(rec) ==
    << StepById(process_steps, rec.step_id), IndexOf(resources, rec.resource) >>

\* The resource the returned records give the step.
ResourceOfStep(id) ==
    Returned[CHOOSE k \in 1..Len(Returned) : Returned[k].step_id = id].resource

LimitLine == <<"Limit reached: Could not find a material-flow consistent solution.">>

InLog(line) == \E k \in 1..Len(log) : log[k] = line

\* C1: in a returned solution every step has exactly one true decision
\* variable in the accepted model, and the records hold exactly one record
\* per step.
C1_ExactlyOneResource ==
    Accepted =>
        /\ \A a \in 1..Len(process_steps) :
              /\ Cardinality({b \in 1..Len(resources) :
                                 IsTrueIn(model[1], Assignment[a][b])}) = 1
              /\ Cardinality({k \in 1..Len(Returned) :
                                 Returned[k].step_id = process_steps[a].ID}) = 1
        /\ Len(Returned) = Len(process_steps)

\* A solution was returned for two steps, one of which had two candidates.
C1_Witness ==
    /\ Accepted
    /\ Len(process_steps) >= 2
    /\ \E a \in 1..Len(process_steps) :
           Cardinality({b \in 1..Len(resources) : ~IsNone(Assignment[a][b])}) >= 2

\* C2: for every record of a returned solution the candidate cell of its
\* (step, resource) pair is present, the capabilities reported are the cell's
\* names, and each of them names a capability of that resource that passes
\* the semantic, the parameter and the precondition test for the step.
C2_ReportedCapabilitiesPassed ==
    Accepted =>
        \A k \in 1..Len(Returned) :
            LET rec  == Returned[k]
                a    == CellOfRecord(rec)[1]
                b    == CellOfRecord(rec)[2]
                cell == step_resource_to_caps_props[a][b]
            IN  /\ ~IsNone(cell)
                /\ Len(cell[1]) > 0
                /\ rec.capabilities = Join(cell[1])
                /\ \A n \in 1..Len(cell[1]) :
                       \E cap \in SeqElems(CapsOf(capabilities_data, resources[b])) :
                           /\ cap.capability_name = cell[1][n]
                           /\ capability_matching(process_steps[a].SemanticDescription, cap)
                           /\ properties_compatible(process_steps[a], cap).ok
                           /\ check_preconditions_for_step(recipe_data, process_steps[a], cap)

\* A record was returned for a resource that also has a capability the step
\* could not use.
C2_Witness ==
    /\ Accepted
    /\ \E k \in 1..Len(Returned) :
           LET c == CellOfRecord(Returned[k])
           IN  Len(step_resource_to_caps_props[c[1]][c[2]][1])
                   < Len(CapsOf(capabilities_data, resources[c[2]]))

\* Link n goes from a material to a process step of the returned solution.
ProcessConsumption(n) ==
    LET link == recipe_data.DirectedLinks[n]
    IN  /\ link.FromID \in MaterialIDs(recipe_data)
        /\ link.ToID \in StepIDs(process_steps)
        /\ ~IsTransfer(step_resource_to_caps_props, process_steps, resources,
                       link.ToID, ResourceOfStep(link.ToID))

\* material_location of the accepted model when the scan reaches link n.
LocationBefore(n) ==
    FlowScan(n - 1, model[1], step_resource_to_caps_props, process_steps,
             resources, recipe_data).loc

\* C3: in a returned solution, scanning DirectedLinks in order, at every
\* Material->Step link consumed by a process step the material is unlocated
\* or lies on the resource of the consuming step.
C3_ProcessStepFindsMaterial ==
    Accepted =>
        \A n \in 1..Len(recipe_data.DirectedLinks) :
            ProcessConsumption(n) =>
                LET from_res == LocationBefore(n)[recipe_data.DirectedLinks[n].FromID]
                IN  \/ IsNone(from_res)
                    \/ from_res[1] = ResourceOfStep(recipe_data.DirectedLinks[n].ToID)

\* A solution was returned after a rejection, and in it a process step
\* consumes a material that an earlier step had left on a resource.
C3_Witness ==
    /\ Accepted
    /\ Len(examined) >= 2
    /\ \E n \in 1..Len(recipe_data.DirectedLinks) :
           /\ ProcessConsumption(n)
           /\ ~IsNone(LocationBefore(n)[recipe_data.DirectedLinks[n].FromID])

\* The step-to-resource assignment of a model.
AssignmentOf(m) == TrueCells(m, Assignment)

\* C4: every model the solver yielded is blocked before the next one is
\* requested, so the solver never yields an assignment a second time: when a
\* model is about to be requested the block of every earlier one is in the
\* solver, and the newest model examined differs from all before it (which,
\* holding in every state, makes the examined models pairwise different).  An
\* accepted model ends the call, so no model is requested after it and no two
\* solutions of one run are the same.
C4_NoAssignmentExaminedTwice ==
    /\ pc = "check" =>
           \A k \in 1..Len(examined) : TrueVars(examined[k]) \in s.blocked
    /\ \A k \in 1..(Len(examined) - 1) :
           AssignmentOf(examined[k]) # AssignmentOf(examined[Len(examined)])
    /\ Accepted => ~ENABLED SolveSat

\* The solver is asked for a third model after two were rejected.
C4_Witness ==
    /\ pc = "check"
    /\ Len(examined) >= 2
    /\ Models(s) # {}

\* C5: the call returns the first model, in the order the solver yielded
\* them, that the flow checker accepts: the records returned are those of the
\* last model yielded, the checker accepts it and rejects every model yielded
\* before it, and no model is requested after it.
C5_FirstAcceptedReturned ==
    Accepted =>
        /\ Len(examined) >= 1
        /\ model = Some(examined[Len(examined)])
        /\ {CellOfRecord(Returned[k]) : k \in 1..Len(Returned)}
               = AssignmentOf(examined[Len(examined)])
        /\ \A k \in 1..Len(examined) :
               is_materialflow_consistent(examined[k], step_resource_to_caps_props,
                                          process_steps, resources, recipe_data)
                   <=> (k = Len(examined))
        /\ ~ENABLED SolveSat

\* The third model yielded was the first one accepted, with another model
\* still to be had from the solver.
C5_Witness ==
    /\ Accepted
    /\ Len(examined) = 3
    /\ Cardinality(Models([s EXCEPT !.blocked = {}])) > 3

\* The assignments that satisfy the encoded constraints and pass the flow
\* checker.
ConsistentAssignments ==
    {AssignmentOf(m) : m \in {x \in Models([s EXCEPT !.blocked = {}]) : FlowOk(x)}}

\* The assignments of the solutions the call returned.
ReturnedAssignments ==
    IF Accepted THEN {{CellOfRecord(Returned[k]) : k \in 1..Len(Returned)}} ELSE {}

\* C6: when the call ends before the attempt budget is used up, the solutions
\* returned are exactly the assignments that satisfy the constraints and pass
\* the flow checker.
C6_AllSolutionsReturned ==
    (pc = "done" /\ attempt_count < max_attempts) =>
        ReturnedAssignments = ConsistentAssignments

\* C7: every record of a returned solution carries the solution's id, the
\* first solution's being 1.
C7_RecordsCarrySolutionId ==
    Accepted =>
        \A k \in 1..Len(Returned) :
            /\ "solution_id" \in DOMAIN Returned[k]
            /\ Returned[k]["solution_id"] = 1

\* C8: the search loop ends after at most max_attempts models: the attempt
\* counter is the number of models examined and never exceeds max_attempts, a
\* model is requested only while the counter is below max_attempts, and the
\* loop is left only with the call's value set.
C8_SearchBounded ==
    /\ attempt_count <= max_attempts
    /\ Len(examined) = attempt_count
    /\ pc = "check" => attempt_count < max_attempts
    /\ pc = "flow" => ~IsNone(model) /\ attempt_count >= 1
    /\ pc = "done" => ~IsNone(ret)

\* The call ended with max_attempts models examined.
C8_Witness ==
    /\ pc = "done"
    /\ attempt_count = max_attempts
    /\ Len(examined) = max_attempts

\* The loop ended because the attempt counter reached max_attempts.
BudgetExhausted == pc = "done" /\ ~Accepted /\ attempt_count >= max_attempts

\* C9: when the attempt counter reaches max_attempts without an acceptance
\* the call returns no solution and logs the limit line, which no other
\* outcome logs; the outcome in which the solver proved UNSAT logs only the
\* UNSAT line.
C9_BudgetExhaustionReported ==
    pc = "done" =>
        /\ BudgetExhausted => (InLog(LimitLine) /\ ret = Some(<< >>))
        /\ InLog(LimitLine) => BudgetExhausted
        /\ (~Accepted /\ ~BudgetExhausted) =>
               (log[Len(log)] = <<"UNSAT (No Solution Found).">> /\ ret = Some(<< >>))

\* The call ended on the budget, the limit line logged and nothing returned.
C9_Witness ==
    /\ BudgetExhausted
    /\ InLog(LimitLine)
    /\ ret = Some(<< >>)

\* The loop over resources has run for step a and left it no variable.
NoCandidate(a) ==
    /\ a <= Len(Assignment)
    /\ \A b \in 1..Len(Assignment[a]) : IsNone(Assignment[a][b])

\* C10: when a step is left without a decision variable, the encoder asserts
\* False, the first check is UNSAT, no model is examined, and the call
\* returns the empty list without raising.
C10_EmptyCandidatesReturnEmpty ==
    (\E a \in 1..Len(process_steps) : NoCandidate(a)) =>
        /\ pc # "raised"
        /\ pc # "flow"
        /\ examined = << >>
        /\ pc \in {"check", "done"} => (s.falsum /\ Models(s) = {})
        /\ pc = "done" => ret = Some(<< >>)

\* resource_map of the model of the current iteration.
CurrentMap == ResourceMap(model[1], process_steps, resources, Assignment)

\* The scan of the first n links for the model of the current iteration.
CurrentScan(n) ==
    FlowScan(n, model[1], step_resource_to_caps_props, process_steps,
             resources, recipe_data)

\* Link n goes from a material to a step that the model of the current
\* iteration runs as a transport step.
TransportConsumption(n) ==
    LET link == recipe_data.DirectedLinks[n]
    IN  /\ link.FromID \in MaterialIDs(recipe_data)
        /\ link.ToID \in StepIDs(process_steps)
        /\ link.ToID \in DOMAIN CurrentMap
        /\ IsTransfer(step_resource_to_caps_props, process_steps, resources,
                      link.ToID, CurrentMap[link.ToID])

\* C11: a Material->Step link consumed by a transport step never makes the
\* flow checker reject the model: when the scan reaches such a link, it goes
\* on past it, wherever the material lies.
C11_TransportConsumerAccepted ==
    pc = "flow" =>
        \A n \in 1..Len(recipe_data.DirectedLinks) :
            (CurrentScan(n - 1).ok /\ TransportConsumption(n)) => CurrentScan(n).ok

\* C12: for S1 -> M1 -> S2 with S1 a candidate on the first resource only and
\* S2 on the second only, nothing is returned when the second resource
\* declares no transport capability, and once it declares a capability named
\* Transfer the assignment {S1 -> first, S2 -> second} is returned.
C12_TransferMakesAcceptable ==
    (recipe_data = TransportRecipe /\ pc = "done") =>
        /\ ~has_transfer_capability(resources[2], capabilities_data) =>
               ret = Some(<< >>)
        /\ has_transfer_capability(resources[2], capabilities_data) =>
               (Accepted /\ ReturnedAssignments = {{<<1, 1>>, <<2, 2>>}})

\* Step a has a predecessor step with a candidate cell on a resource other
\* than b.
PredecessorElsewhere(a, b) ==
    \E link \in SeqElems(recipe_data.DirectedLinks) :
        /\ link.ToID = process_steps[a].ID
        /\ \E p \in 1..Len(process_steps) :
               /\ process_steps[p].ID = link.FromID
               /\ \E k \in 1..Len(resources) :
                      k # b /\ ~IsNone(step_resource_to_caps_props[p][k])

\* C13: once the constraints are built, for every step a and resource b, if a
\* has a predecessor step with a candidate on another resource and b declares
\* no transport capability, then the variable of (a, b) is asserted false and
\* left out of the step's row, wherever the predecessor stands in
\* ProcessElements.
C13_TransportGate ==
    pc \in {"check", "flow", "done"} =>
        \A a \in 1..Len(process_steps) : \A b \in 1..Len(resources) :
            (/\ PredecessorElsewhere(a, b)
             /\ ~has_transfer_capability(resources[b], capabilities_data))
                => /\ IsNone(Assignment[a][b])
                   /\ VarName(process_steps[a], resources[b]) \in s.neg

\* The capabilities of resource b that pass the semantic, the parameter and
\* the precondition test for step a, in the order the resource declares them.
PassingCaps(a, b) ==
    SelectSeq(CapsOf(capabilities_data, resources[b]),
              LAMBDA cap :
                  /\ capability_matching(process_steps[a].SemanticDescription, cap)
                  /\ properties_compatible(process_steps[a], cap).ok
                  /\ check_preconditions_for_step(recipe_data, process_steps[a], cap))

\* C19: once the constraints are built, the cell of (a, b) is present iff at
\* least one capability of resource b passes the three tests for step a, its
\* names are then exactly those of the passing capabilities, and the step's
\* row holds a variable for b iff the cell is present.
C19_CellIffCapabilityPasses ==
    pc \in {"check", "flow", "done"} =>
        \A a \in 1..Len(process_steps) : \A b \in 1..Len(resources) :
            LET cell    == step_resource_to_caps_props[a][b]
                passing == PassingCaps(a, b)
            IN  /\ ~IsNone(cell) <=> Len(passing) > 0
                /\ ~IsNone(cell) =>
                       cell[1] = [k \in 1..Len(passing) |-> passing[k].capability_name]
                /\ ~IsNone(Assignment[a][b]) <=> ~IsNone(cell)

\* The step with this ID runs as a transport step under the model of the
\* current iteration: one of the capability names of its assigned cell is
\* Dosing, Transfer or Discharge.
TransportStep(id) ==
    LET a == StepById(process_steps, id)
        b == IndexOf(resources, CurrentMap[id])
    IN  SeqElems(step_resource_to_caps_props[a][b][1])
            \cap {"Dosing", "Transfer", "Discharge"} # {}

\* material_location after link n as the rules of the flow checker give it
\* from material_location before the link.
LocationAfter(n) ==
    LET link   == recipe_data.DirectedLinks[n]
        before == CurrentScan(n - 1).loc
        mats   == MaterialIDs(recipe_data)
        ids    == StepIDs(process_steps)
    IN  IF link.FromID \in ids /\ link.ToID \in mats
        THEN [before EXCEPT ![link.ToID] =
                 IF TransportStep(link.FromID) THEN None
                 ELSE Some(CurrentMap[link.FromID])]
        ELSE IF link.FromID \in mats /\ link.ToID \in ids
                /\ ~TransportStep(link.ToID)
        THEN [before EXCEPT ![link.FromID] = Some(CurrentMap[link.ToID])]
        ELSE before

\* C20: the flow checker starts with every material unlocated; past every link
\* it scans, a material produced by a transport step is unlocated, a material
\* produced by a process step lies on that step's resource, a material
\* consumed by a process step lies on the consumer's resource, and every
\* other link (consumption by a transport step, Step->Step,
\* Material->Material) leaves all locations as they were.
C20_LocationUpdates ==
    pc = "flow" =>
        /\ CurrentScan(0).loc = [id \in MaterialIDs(recipe_data) |-> None]
        /\ \A n \in 1..Len(recipe_data.DirectedLinks) :
               CurrentScan(n).ok => CurrentScan(n).loc = LocationAfter(n)

\* A model passes the flow checker with a material produced by a transport
\* step and a material located by its process consumer.
C20_Witness ==
    /\ pc = "flow"
    /\ FlowOk(model[1])
    /\ \E n \in 1..Len(recipe_data.DirectedLinks) :
           /\ recipe_data.DirectedLinks[n].FromID \in StepIDs(process_steps)
           /\ recipe_data.DirectedLinks[n].ToID \in MaterialIDs(recipe_data)
           /\ TransportStep(recipe_data.DirectedLinks[n].FromID)
    /\ \E n \in 1..Len(recipe_data.DirectedLinks) :
           /\ recipe_data.DirectedLinks[n].FromID \in MaterialIDs(recipe_data)
           /\ recipe_data.DirectedLinks[n].ToID \in StepIDs(process_steps)
           /\ CurrentScan(n).loc # CurrentScan(n - 1).loc

\* The run got to the calculation phase: the capability map was built.
ReachedCalculation ==
    \/ w_pc = "calc"
    \/ \E k \in 1..Len(emitted) :
           emitted[k].sig = "log" /\ emitted[k].text = "Starting Calculation"

\* The solutions the rows of a presentation belong to, in the order in which
\* they first appear, with the costs the rows carry.
RECURSIVE SolutionsShown(_, _)
SolutionsShown(rows, seen) ==
    IF rows = << >> THEN << >>
    ELSE LET r == Head(rows)
         IN  IF DOMAIN r = {} \/ r.solution_id \in seen
             THEN SolutionsShown(Tail(rows), seen)
             ELSE << [solution_id         |-> r.solution_id,
                      total_energy_cost   |-> r.energy_cost,
                      total_use_cost      |-> r.use_cost,
                      total_co2_footprint |-> r.co2_footprint] >>
                  \o SolutionsShown(Tail(rows), seen \cup {r.solution_id})

\* The rows present their solutions in the order evaluate gives them.
RowsFollowEvaluate(rows) ==
    LET shown  == SolutionsShown(rows, {})
        ranked == evaluate(shown, Weights)
    IN  \A k \in 1..Len(shown) : ranked[k].solution_id = shown[k].solution_id

\* C14: a run of the worker in its ranking mode that got to the calculation
\* ends with finished_signal carrying the solutions in the order of evaluate:
\* ascending composite score, equal scores by ascending solution_id.
C14_WeightedModePresentsRanking ==
    (w_pc = "done" /\ RanksSolutions(variant, mode_index) /\ ReachedCalculation) =>
        \E k \in 1..Len(emitted) :
            emitted[k].sig = "finished" /\ RowsFollowEvaluate(emitted[k].arg)

\* C15: run_optimization, called as the worker calls it, hands back a pair:
\* in a run that got to the calculation neither the call nor the unpacking of
\* its value into two names raises.
C15_CallReturnsPair ==
    (w_pc = "done" /\ ReachedCalculation) => IsNone(caught)

\* The files of the directory that the worker considers and that parse to
\* capabilities.
GoodFiles ==
    IF IsNone(listing) THEN {}
    ELSE {f \in SeqElems(listing[1]) :
             Considered(variant, f) /\ parse_result[f] = "caps"}

\* The files of the directory that the worker considers and whose parsing
\* raises.
FailingFiles ==
    IF IsNone(listing) THEN {}
    ELSE {f \in SeqElems(listing[1]) :
             Considered(variant, f) /\ parse_result[f] = "raises"}

\* A log line with this text about this file was emitted.
Logged(text, file) ==
    \E k \in 1..Len(emitted) :
        emitted[k].sig = "log" /\ emitted[k].text = text /\ emitted[k].arg = file

\* C16: a resource file whose parsing fails is logged as a warning and
\* skipped: the files after it are still parsed and a run with at least one
\* file that parsed gets to the calculation with exactly the resources that
\* parsed.  Building the capability map ends the run with an error only when
\* no resource file is found or none parsed to capabilities.
C16_ParseFailuresSkipped ==
    /\ \A k \in 1..(file_idx - 1) :
           /\ Logged("Parsing resource file", resource_files[k])
           /\ parse_result[resource_files[k]] = "raises" =>
                  Logged("Warning: Failed to parse", resource_files[k])
    /\ ReachedCalculation =>
           /\ file_idx = Len(resource_files) + 1
           /\ SeqElems(Keys(all_capabilities)) = {ResKey(PathStem(f)) : f \in GoodFiles}
           /\ \A e \in SeqElems(all_capabilities) : e.caps \in GoodFiles
    /\ (w_pc = "done" /\ recipe_parses /\ GoodFiles # {}) => ReachedCalculation

\* The run got to the calculation although the parsing of its first resource
\* file raised.
C16_Witness ==
    /\ ReachedCalculation
    /\ Len(resource_files) > 1
    /\ resource_files[1] \in FailingFiles

\* The terminal signals of the run, in order.
TerminalSignals == SelectSeq(emitted, LAMBDA e : e.sig \in {"finished", "error"})

\* C17: a worker run that has ended has emitted exactly one terminal signal
\* and a run that has not ended none; the signal is error_signal iff a step
\* raised outside the guard around the parsing of one file, and
\* finished_signal otherwise; nothing is delivered after an error.
C17_OneTerminalSignal ==
    /\ Len(TerminalSignals) = (IF w_pc = "done" THEN 1 ELSE 0)
    /\ w_pc = "done" =>
           TerminalSignals[1].sig = (IF IsNone(caught) THEN "finished" ELSE "error")
    /\ \A a \in 1..Len(emitted) : \A b \in (a + 1)..Len(emitted) :
           emitted[a].sig = "error" => emitted[b].sig \notin {"finished", "error"}

\* A run ended with error_signal after a file's parse failure had been only
\* a warning.
C17_Witness ==
    /\ w_pc = "done"
    /\ ~IsNone(caught)
    /\ FailingFiles # {}
    /\ ReachedCalculation

\* C18: once the caller has asked the search to stop, no further model is
\* requested from the solver.
C18_CancelStopsSearch == [][cancel_requested => examined' = examined]_vars

\* C21: once the constraints are built, a pair (a, b) with a passing
\* capability, none of whose predecessor steps has a candidate on a resource
\* other than b, is not gated for transport and stays assignable to b: its
\* cell is present, its variable stands in the step's row and is not asserted
\* false.
C21_NoGateOnSameResource ==
    pc \in {"check", "flow", "done"} =>
        \A a \in 1..Len(process_steps) : \A b \in 1..Len(resources) :
            (~PredecessorElsewhere(a, b) /\ Len(PassingCaps(a, b)) > 0) =>
                /\ ~IsNone(step_resource_to_caps_props[a][b])
                /\ Assignment[a][b] = Some(VarName(process_steps[a], resources[b]))
                /\ VarName(process_steps[a], resources[b]) \notin s.neg
                /\ \E row \in SeqElems(s.sums) :
                       VarName(process_steps[a], resources[b]) \in SeqElems(row)


(***************************************************************************)
(* The compatibility tests called on their own                             *)
(***************************************************************************)

\* Most parameters of a step, properties of a capability and constraints of a
\* property the calls are drawn with.
MaxParams == 2

MaxProps == 2

MaxConstraints == 2

\* All sequences over S of length at most n.
SeqsUpTo(S, n) == UNION { [1..k -> S] : k \in 0..n }

OpTexts == { << >>, <<"=">>, <<">", "=">>, <<"<", "=">>, <<">">>, <<"<">> }

NumberTexts == { <<"5">>, <<"1", "0">>, <<"1", "5">>, <<"2", "0">>, <<"2", "5">> }

\* The value expressions: every operator before every number, ">= 10",
\* "10,5", "10.5", "abc" (no number), "1.2.3" and "1,5.2" (the pattern takes
\* them, float() refuses them), and no ValueString at all.
ValueExpressions ==
    { Some(o \o n) : o \in OpTexts, n \in NumberTexts }
    \cup { Some(<<">", "=", " ", "1", "0">>), Some(<<"1", "0", ",", "5">>),
           Some(<<"1", "0", ".", "5">>), Some(<<"a", "b", "c">>),
           Some(<<"1", ".", "2", ".", "3">>), Some(<<"1", ",", "5", ".", "2">>),
           None }

\* Properties with and without the range [10, 20] and with the value lists
\* none, 10, and 5 and 15.
ValueProps ==
    { Prop("Temp", Some("C"), lo, hi, values, << >>) :
          lo \in {None, Some(<<"1", "0">>)},
          hi \in {None, Some(<<"2", "0">>)},
          values \in { << >>, << <<"1", "0">> >>, << <<"5">>, <<"1", "5">> >> } }

\* A call property_value_match(param_value, prop) is made.
ValueMatchCalled ==
    \E v \in ValueExpressions, prop \in ValueProps :
        unit_call = Some([fn |-> "property_value_match", args |-> <<v, prop>>])

\* Parameters Temp and Pres, with and without a unit, ">=10" or "1.2.3".
UnitParams ==
    { Param(key, unit, Some(value)) :
          key \in {"Temp", "Pres"},
          unit \in {None, Some("C")},
          value \in { <<">", "=", "1", "0">>, <<"1", ".", "2", ".", "3">> } }

\* Properties Temp and Pres in C, K or without a unit, without values or with
\* the one value 5 or 10.
UnitProps ==
    { Prop(id, unit, None, None, values, << >>) :
          id \in {"Temp", "Pres"},
          unit \in {None, Some("C"), Some("K")},
          values \in { << >>, << <<"5">> >>, << <<"1", "0">> >> } }

\* A call properties_compatible(recipe_step, cap_entry) is made.
CompatibleCalled ==
    \E params \in SeqsUpTo(UnitParams, MaxParams),
       props \in SeqsUpTo(UnitProps, MaxProps) :
        unit_call = Some([fn |-> "properties_compatible",
                          args |-> << Step(SID(1), "Heat", params),
                                      Cap("Heating", Sem("Heat"), {}, props) >>])

\* Constraints on Mass in kg, Mass in g or Vol in kg against 5, "Pre" or
\* "Post".
UnitConstraints ==
    { [conditional_type |-> type, property_constraint_ID |-> of[1],
       property_constraint_unit |-> of[2], property_constraint_value |-> value] :
          type \in {"Pre", "Post"},
          of \in { <<"Mass", "kg">>, <<"Mass", "g">>, <<"Vol", "kg">> },
          value \in { <<">", "=", "5">>, <<">", "5">>, <<"<", "=", "5">>,
                      <<"<", "5">>, <<"=", "5">>, <<"a", "b", "c">> } }

\* The links into S1 and S2 of a recipe with the input M0, the intermediate
\* M1 (1 kg) and the output M2 (1 kg).
UnitWirings ==
    { << >>,
      << Link(MID(0), SID(1)) >>,
      << Link(MID(1), SID(1)) >>,
      << Link(MID(0), SID(2)) >>,
      << Link(MID(2), SID(1)) >>,
      << Link(MID(0), SID(1)), Link(MID(1), SID(1)) >> }

\* A call check_preconditions_for_step(recipe, step, cap_entry) is made for
\* S1, M0 being 3, 5 or 10 kg.
PreconditionsCalled ==
    \E links \in UnitWirings,
       quantity \in { <<"3">>, <<"5">>, <<"1", "0">> },
       constraints \in SeqsUpTo(UnitConstraints, MaxConstraints) :
        unit_call =
            Some([fn |-> "check_preconditions_for_step",
                  args |-> << Recipe(<< StepOfKind(SID(1), "Mix"),
                                        StepOfKind(SID(2), "Mix") >>,
                                     links, quantity),
                              StepOfKind(SID(1), "Mix"),
                              Cap("Mixing", Sem("Mix"), {},
                                  << Prop("Fill", None, None, None, << >>,
                                          constraints) >>) >>])

\* The call has been made and has not returned.
Pending(fn) ==
    /\ ~IsNone(unit_call)
    /\ unit_call[1].fn = fn
    /\ IsNone(unit_result)

UnitFrame == UNCHANGED <<call_vars, worker_vars, gui_vars, unit_call>>

CallValueMatch ==
    /\ Pending("property_value_match")
    /\ unit_result' = Some(property_value_match(unit_call[1].args[1],
                                                unit_call[1].args[2]))
    /\ UnitFrame

CallPropertiesCompatible ==
    /\ Pending("properties_compatible")
    /\ unit_result' = Some(properties_compatible(unit_call[1].args[1],
                                                 unit_call[1].args[2]))
    /\ UnitFrame

CallCheckPreconditions ==
    /\ Pending("check_preconditions_for_step")
    /\ unit_result' = Some(check_preconditions_for_step(unit_call[1].args[1],
                                                        unit_call[1].args[2],
                                                        unit_call[1].args[3]))
    /\ UnitFrame

UnitInit ==
    /\ \/ ValueMatchCalled
       \/ CompatibleCalled
       \/ PreconditionsCalled
    /\ unit_result = None
    /\ recipe_data = TransportRecipe
    /\ capabilities_data = TransportPlant(<< >>)
    /\ solver_order = "ascending"
    /\ CallStart
    /\ WorkerIdle
    /\ FrontEndIdle

UnitNext ==
    \/ CallValueMatch
    \/ CallPropertiesCompatible
    \/ CallCheckPreconditions

UnitSpec == UnitInit /\ [][UnitNext]_vars

\* The call of fn has returned.
Answered(fn) ==
    /\ ~IsNone(unit_call)
    /\ unit_call[1].fn = fn
    /\ ~IsNone(unit_result)

\* The expression as (op, v), None when it cannot be read as '[op] number'.
ParsedExpression(value) ==
    IF IsNone(ReMatch(StrOf(value))) THEN None
    ELSE IF IsNone(FloatOfValue(ReMatch(StrOf(value))[1].val)) THEN None
    ELSE Some([op |-> OpOrEq(ReMatch(StrOf(value))[1].op),
               v  |-> FloatOfValue(ReMatch(StrOf(value))[1].val)[1]])

HasRange(prop) == ~IsNone(prop.valueMin) \/ ~IsNone(prop.valueMax)

\* What the four conditions of the range say about (op, v) and the property.
RangeRejects(op, v, prop) ==
    \/ /\ ~IsNone(prop.valueMin)
       /\ \/ (op \in {"=", ">="} /\ v < FloatOf(prop.valueMin[1])[1])
          \/ (op = ">" /\ v <= FloatOf(prop.valueMin[1])[1])
    \/ /\ ~IsNone(prop.valueMax)
       /\ \/ (op \in {"=", "<="} /\ v > FloatOf(prop.valueMax[1])[1])
          \/ (op = "<" /\ v >= FloatOf(prop.valueMax[1])[1])

\* C22: property_value_match on a property that declares valueMin or
\* valueMax, with an expression that reads as (op, v), answers False exactly
\* when one of the four range conditions holds and True otherwise, whatever
\* discrete values the property declares besides.
C22_RangeDecides ==
    ( /\ Answered("property_value_match")
      /\ HasRange(unit_call[1].args[2])
      /\ ~IsNone(ParsedExpression(unit_call[1].args[1])) ) =>
        unit_result[1] =
            IF RangeRejects(ParsedExpression(unit_call[1].args[1])[1].op,
                            ParsedExpression(unit_call[1].args[1])[1].v,
                            unit_call[1].args[2])
            THEN "False" ELSE "True"

\* A property with a range and values is accepted by its range for an
\* expression none of its values satisfies.
C22_Witness ==
    /\ Answered("property_value_match")
    /\ ~IsNone(unit_call[1].args[2].valueMin)
    /\ ~IsNone(unit_call[1].args[2].valueMax)
    /\ unit_call[1].args[2].values # << >>
    /\ ~IsNone(ParsedExpression(unit_call[1].args[1]))
    /\ ~DiscreteAccepts(ParsedExpression(unit_call[1].args[1])[1].op,
                        ParsedExpression(unit_call[1].args[1])[1].v,
                        DiscreteValues(unit_call[1].args[2]))
    /\ unit_result[1] = "True"

\* The numbers a property declares under value, value1, ...
DeclaredValues(prop) ==
    { FloatOf(text)[1] : text \in { u \in SeqElems(prop.values) : ~IsNone(FloatOf(u)) } }

\* What the discrete rule says about (op, v) and the declared numbers D.
ValuesSatisfy(op, v, D) ==
    \/ (op = "="  /\ v \in D)
    \/ (op = ">=" /\ \E d \in D : d >= v)
    \/ (op = "<=" /\ \E d \in D : d <= v)
    \/ (op = ">"  /\ \E d \in D : d > v)
    \/ (op = "<"  /\ \E d \in D : d < v)

\* What the discrete rule answers for an expression and a property without
\* a range.
DiscreteAnswer(value, prop) ==
    IF DeclaredValues(prop) = {} THEN "True"
    ELSE IF IsNone(ParsedExpression(value)) THEN "False"
    ELSE IF ValuesSatisfy(ParsedExpression(value)[1].op,
                          ParsedExpression(value)[1].v, DeclaredValues(prop))
    THEN "True" ELSE "False"

\* C23: property_value_match on a property without a range answers True when
\* the property declares no values, False when it declares values and the
\* expression does not read as '[op] number', and otherwise what the discrete
\* rule says about (op, v) and the declared values; it never raises.
C23_DiscreteDecides ==
    ( /\ Answered("property_value_match")
      /\ ~HasRange(unit_call[1].args[2]) ) =>
        unit_result[1] = DiscreteAnswer(unit_call[1].args[1], unit_call[1].args[2])

\* The property can serve the parameter: same ID, units that do not
\* contradict, and a value the property accepts.
ParamMatches(param, prop) ==
    /\ prop.property_ID = param.Key
    /\ \/ IsNone(param.UnitOfMeasure)
       \/ IsNone(prop.property_unit)
       \/ param.UnitOfMeasure = prop.property_unit
    /\ property_value_match(param.ValueString, prop) = "True"

\* The first property in declaration order that can serve the parameter.
FirstMatch(param, props) ==
    props[CHOOSE k \in 1..Len(props) :
              /\ ParamMatches(param, props[k])
              /\ \A l \in 1..(k - 1) : ~ParamMatches(param, props[l])]

AllParamsMatched(params, props) ==
    \A p \in 1..Len(params) : \E k \in 1..Len(props) : ParamMatches(params[p], props[k])

\* What the claim expects the call to return for these parameters and
\* properties.
ExpectedCompatible(params, props) ==
    IF params = << >> \/ ~AllParamsMatched(params, props)
    THEN [raised |-> FALSE, ok |-> params = << >>, matched |-> << >>]
    ELSE [raised |-> FALSE, ok |-> TRUE,
          matched |-> [p \in 1..Len(params) |->
                          <<params[p], FirstMatch(params[p], props)>>]]

\* C24: properties_compatible returns (True, []) for a step without
\* parameters; otherwise it returns True exactly when every parameter has a
\* property of the same ID with a compatible unit and value, together with the
\* first such property of every parameter, and (False, []) as soon as one
\* parameter has none; it always returns.
C24_CompatibleIffAllMatched ==
    Answered("properties_compatible") =>
        unit_result[1] = ExpectedCompatible(unit_call[1].args[1].Parameters,
                                            unit_call[1].args[2].properties)

\* The materials of Inputs and Intermediates with a DirectedLink into the
\* step.
InputMaterialsOf(recipe, step) ==
    { m \in SeqElems(recipe.Inputs) \cup SeqElems(recipe.Intermediates) :
          \E l \in SeqElems(recipe.DirectedLinks) : l.FromID = m.ID /\ l.ToID = step.ID }

\* The quantity stands in relation op to the number.
Relation(op, quantity, number) ==
    CASE op = ">=" -> quantity >= number
      [] op = ">"  -> quantity > number
      [] op = "<=" -> quantity <= number
      [] op = "<"  -> quantity < number
      [] op = "="  -> quantity = number

\* The material satisfies the constraint: same Key, same UnitOfMeasure and a
\* Quantity in the constraint's relation to its number.
Satisfied(constraint, mat) ==
    /\ mat.Key = constraint.property_constraint_ID
    /\ mat.UnitOfMeasure = constraint.property_constraint_unit
    /\ ~IsNone(ParsedExpression(Some(constraint.property_constraint_value)))
    /\ ~IsNone(FloatOf(mat.Quantity))
    /\ Relation(ParsedExpression(Some(constraint.property_constraint_value))[1].op,
                FloatOf(mat.Quantity)[1],
                ParsedExpression(Some(constraint.property_constraint_value))[1].v)

\* The "Pre" constraints of a capability.
PreConstraints(cap_entry) ==
    UNION { { c \in SeqElems(prop.property_constraint) : c.conditional_type = "Pre" } :
            prop \in SeqElems(cap_entry.properties) }

\* C25: check_preconditions_for_step passes a capability for a step exactly
\* when each of its "Pre" constraints is satisfied by some material of Inputs
\* or Intermediates that has a link into the step; a capability without a
\* "Pre" constraint passes.
C25_PreconditionsDecide ==
    Answered("check_preconditions_for_step") =>
        ( unit_result[1] <=>
              \A c \in PreConstraints(unit_call[1].args[3]) :
                  \E m \in InputMaterialsOf(unit_call[1].args[1], unit_call[1].args[2]) :
                      Satisfied(c, m) )

\* A capability with two "Pre" constraints passes on two different input
\* materials.
C25_Witness ==
    /\ Answered("check_preconditions_for_step")
    /\ Cardinality(PreConstraints(unit_call[1].args[3])) = 2
    /\ unit_result[1]
    /\ \A m \in InputMaterialsOf(unit_call[1].args[1], unit_call[1].args[2]) :
           \E c \in PreConstraints(unit_call[1].args[3]) : ~Satisfied(c, m)

\* The (step, resource) pairs that have a decision variable.
VariablePairs ==
    { q \in (1..Len(Assignment)) \X (1..Len(resources)) :
          ~IsNone(Assignment[q[1]][q[2]]) }

\* C30: once the rows are built, two different (step, resource) pairs never
\* share their decision variable.
C30_DistinctVariables ==
    pc \in {"check", "flow", "done"} =>
        \A q \in VariablePairs : \A r \in VariablePairs :
            q # r => Assignment[q[1]][q[2]] # Assignment[r[1]][r[2]]


(***************************************************************************)
(* The weight spin boxes (HomePage of Code/GUI/Home.py, SettingsPage of    *)
(* Code/GUI/Settings.py and of gui.py)                                     *)
(***************************************************************************)

SpinBoxes == {"energy", "use", "co2"}

\* setRange(0.0, 1.0), in hundredths: a DoubleSpinBox shows two decimals.
SpinMax == 100

\* setSingleStep(0.1), in hundredths.
SingleStep == 10

\* Most changes the user makes to the spin boxes.
MaxChanges == 3

ClampTo(lo, hi, x) == IF x < lo THEN lo ELSE IF x > hi THEN hi ELSE x

\* The values the user can give a spin box: one step up or down from its
\* value, or a typed multiple of the step.
UserValues(source_spin) ==
    { ClampTo(0, SpinMax, spin[source_spin] + SingleStep),
      ClampTo(0, SpinMax, spin[source_spin] - SingleStep) }
    \cup { SingleStep * k : k \in 0..(SpinMax \div SingleStep) }

\* setValue(x) for x given in half hundredths: the value the box takes has two
\* decimals; when x lies midway between two of them the float arithmetic
\* decides, so either neighbour (up or not) may result.
SetValue(halves, up) ==
    IF halves % 2 = 0 THEN halves \div 2
    ELSE IF up THEN (halves + 1) \div 2 ELSE (halves - 1) \div 2

\* s.setValue(max(0.0, min(1.0, curr - adjustment))), adjustment being
\* delta / 2.0
Adjusted(curr, delta, up) ==
    SetValue(ClampTo(0, 2 * SpinMax, 2 * curr - delta), up)

WeightFrame == UNCHANGED <<call_vars, worker_vars, unit_vars, page_vars>>

\* The user sets source_spin to new_val; valueChanged calls balance_weights.
balance_weights(source_spin, new_val) ==
    /\ changes < MaxChanges
    /\ changes' = changes + 1
    /\ new_val # spin[source_spin]
    /\ LET old_val == prev_vals[source_spin]
           delta   == new_val - old_val
       IN  IF delta = 0
           THEN /\ spin' = [spin EXCEPT ![source_spin] = new_val]
                /\ prev_vals' = [prev_vals EXCEPT ![source_spin] = new_val]
           ELSE \E up \in [SpinBoxes -> BOOLEAN] :
                    /\ spin' = [b \in SpinBoxes |->
                                   IF b = source_spin THEN new_val
                                   ELSE Adjusted(spin[b], delta, up[b])]
                    /\ prev_vals' = [b \in SpinBoxes |->
                                        IF b = source_spin THEN new_val
                                        ELSE Adjusted(spin[b], delta, up[b])]
    /\ WeightFrame

WeightInit ==
    /\ WeightStart
    /\ front_end = "Home"
    /\ PageStart
    /\ recipe_data = TransportRecipe
    /\ capabilities_data = TransportPlant(<< >>)
    /\ solver_order = "ascending"
    /\ CallStart
    /\ WorkerIdle
    /\ NoUnitCall

WeightNext ==
    \E source_spin \in SpinBoxes : \E new_val \in UserValues(source_spin) :
        balance_weights(source_spin, new_val)

WeightSpec == WeightInit /\ [][WeightNext]_vars

\* C27: each weight lies in [0, 1], the three weights sum to 1.0, and
\* prev_vals holds the value of every spin box.
C27_WeightsSumToOne ==
    /\ \A b \in SpinBoxes : spin[b] \in 0..SpinMax
    /\ spin.energy + spin.use + spin.co2 = SpinMax
    /\ prev_vals = spin


(***************************************************************************)
(* The home page (HomePage of Code/GUI/Home.py and of gui.py)              *)
(***************************************************************************)

\* Most workers the page starts.
MaxRuns == 2

\* The check boxes and the mode as the handlers see them.
Boxes == [cb_smt |-> cb_smt, cb_opt |-> cb_opt, mode_index |-> page_mode_index]

\* on_smt_checked without the else branch: an unchecked SMT box stays
\* unchecked.
on_smt_checked_once(boxes, state) ==
    IF state = "Checked"
    THEN [boxes EXCEPT !.cb_opt = FALSE, !.mode_index = 0]
    ELSE boxes

\* on_smt_checked(state), the boxes being as the change of cb_smt left them.
\* The other box is unchecked with its signals blocked; cb_smt.setChecked(True)
\* in the else branch changes the box and so calls the handler again with
\* Checked.
on_smt_checked(boxes, state) ==
    IF state = "Checked"
    THEN [boxes EXCEPT !.cb_opt = FALSE, !.mode_index = 0]
    ELSE IF ~boxes.cb_opt
         THEN [boxes EXCEPT !.cb_smt = TRUE, !.cb_opt = FALSE, !.mode_index = 0]
         ELSE boxes

on_opt_checked(boxes, state) ==
    IF state = "Checked"
    THEN [boxes EXCEPT !.cb_smt = FALSE, !.mode_index = 1]
    ELSE IF ~boxes.cb_smt
         THEN [boxes EXCEPT !.cb_opt = TRUE, !.cb_smt = FALSE, !.mode_index = 1]
         ELSE boxes

\* The state a box reports after a change.
CheckState(checked) == IF checked THEN "Checked" ELSE "Unchecked"

BoxesBecome(boxes) ==
    /\ cb_smt' = boxes.cb_smt
    /\ cb_opt' = boxes.cb_opt
    /\ page_mode_index' = boxes.mode_index

PageFrame == UNCHANGED <<call_vars, worker_vars, unit_vars, weight_vars, front_end>>

\* The user clicks the SMT box: the box changes and stateChanged calls
\* on_smt_checked.
ClickSmt ==
    /\ app_alive
    /\ front_end = "Home"
    /\ BoxesBecome(on_smt_checked([Boxes EXCEPT !.cb_smt = ~cb_smt], CheckState(~cb_smt)))
    /\ last_event' = IF cb_smt THEN "uncheck smt" ELSE "check smt"
    /\ UNCHANGED <<recipe_path, resource_dir, btn_run, worker, running, app_alive>>
    /\ PageFrame

\* The user clicks the OPT box.
ClickOpt ==
    /\ app_alive
    /\ front_end = "Home"
    /\ BoxesBecome(on_opt_checked([Boxes EXCEPT !.cb_opt = ~cb_opt], CheckState(~cb_opt)))
    /\ last_event' = IF cb_opt THEN "uncheck opt" ELSE "check opt"
    /\ UNCHANGED <<recipe_path, resource_dir, btn_run, worker, running, app_alive>>
    /\ PageFrame

\* What the file dialog returns: "" when the user cancels it.
RecipeFiles == {"", "a.xml", "b.xml"}

ResourceFolders == {"", "plant1", "plant2"}

\* check_ready, the paths being as the caller left them
check_ready(recipe, folder) == IF recipe # "" /\ folder # "" THEN TRUE ELSE btn_run

select_recipe(f) ==
    /\ app_alive
    /\ recipe_path' = IF f # "" THEN f ELSE recipe_path
    /\ btn_run' = IF f # "" THEN check_ready(f, resource_dir) ELSE btn_run
    /\ last_event' = "select recipe"
    /\ UNCHANGED <<cb_smt, cb_opt, page_mode_index, resource_dir, worker, running,
                   app_alive>>
    /\ PageFrame

select_folder(d) ==
    /\ app_alive
    /\ resource_dir' = IF d # "" THEN d ELSE resource_dir
    /\ btn_run' = IF d # "" THEN check_ready(recipe_path, d) ELSE btn_run
    /\ last_event' = "select folder"
    /\ UNCHANGED <<cb_smt, cb_opt, page_mode_index, recipe_path, worker, running,
                   app_alive>>
    /\ PageFrame

\* The user clicks the enabled Run button: the button is disabled and
\* self.worker becomes a new worker, which is started.  A worker that is
\* replaced while its thread runs loses its last reference: the thread object
\* may be destroyed while running, which aborts the application, or live on.
run_process ==
    /\ app_alive
    /\ btn_run
    /\ worker < MaxRuns
    /\ btn_run' = FALSE
    /\ worker' = worker + 1
    /\ running' = running \cup {worker + 1}
    /\ app_alive' \in (IF running = {} THEN {TRUE} ELSE {TRUE, FALSE})
    /\ last_event' = "run"
    /\ UNCHANGED <<cb_smt, cb_opt, page_mode_index, recipe_path, resource_dir>>
    /\ PageFrame

\* The signals a run of the worker can end with: finished_signal needs the
\* call of run_optimization to return.
EndSignals ==
    IF CallBinds(run_optimization_params, 2, WorkerKeywords)
    THEN {"finished", "error"}
    ELSE {"error"}

\* The slot connected to finished_signal: it enables the Run button.
on_finished == TRUE

\* The slot connected to error_signal: handle_error of Home.py enables the
\* Run button, the lambda of gui.py shows an InfoBar only.
handle_error == IF front_end = "Home" THEN TRUE ELSE btn_run

\* A worker's run ends with one of its terminal signals and the page's slot
\* runs.
WorkerEnds(w, signal) ==
    /\ app_alive
    /\ w \in running
    /\ running' = running \ {w}
    /\ btn_run' = IF signal = "finished" THEN on_finished ELSE handle_error
    /\ last_event' = signal
    /\ UNCHANGED <<cb_smt, cb_opt, page_mode_index, recipe_path, resource_dir,
                   worker, app_alive>>
    /\ PageFrame

PageInit ==
    /\ front_end \in {"Home", "gui"}
    /\ PageStart
    /\ WeightStart
    /\ recipe_data = TransportRecipe
    /\ capabilities_data = TransportPlant(<< >>)
    /\ solver_order = "ascending"
    /\ CallStart
    /\ WorkerIdle
    /\ NoUnitCall

PageNext ==
    \/ ClickSmt
    \/ ClickOpt
    \/ \E f \in RecipeFiles : select_recipe(f)
    \/ \E d \in ResourceFolders : select_folder(d)
    \/ run_process
    \/ \E w \in 1..MaxRuns : \E signal \in EndSignals : WorkerEnds(w, signal)

PageSpec == PageInit /\ [][PageNext]_vars

\* C26: on the page of Code/GUI/Home.py exactly one of the boxes SMT and OPT
\* is checked, mode_index is 0 with SMT and 1 with OPT, and a box the user
\* unchecked while it was the only checked one is checked again.
C26_OneModeChecked ==
    front_end = "Home" =>
        /\ cb_smt # cb_opt
        /\ page_mode_index = 0 <=> cb_smt
        /\ page_mode_index = 1 <=> cb_opt
        /\ last_event = "uncheck smt" => cb_smt
        /\ last_event = "uncheck opt" => cb_opt

\* The user switched to OPT and then tried to uncheck it.
C26_Witness ==
    /\ front_end = "Home"
    /\ last_event = "uncheck opt"
    /\ cb_opt
    /\ page_mode_index = 1

BothSelected == recipe_path # "" /\ resource_dir # ""

\* C28: on either page the Run button is disabled once Run was pressed, is
\* enabled once a worker's run has ended with finished_signal or with
\* error_signal, and is enabled only when a recipe file and a resource
\* directory have been selected.
C28_RunButtonFollowsRun ==
    /\ last_event = "run" => ~btn_run
    /\ last_event \in {"finished", "error"} => btn_run
    /\ btn_run => BothSelected

\* C29: while a worker's run is in progress the Run button is disabled, and
\* no second worker runs beside it.
C29_OneWorkerAtATime ==
    /\ running # {} => ~btn_run
    /\ Cardinality(running) <= 1

====
